---- MODULE Spec2Model ----
(***************************************************************************)
(* Model of the KeePassXC database merger (src/core/Merger.cpp).           *)
(*                                                                         *)
(* Two databases, A and B, start from a common ancestor (or B starts as a  *)
(* fresh, empty database), are edited independently by the writer, and are *)
(* then merged into each other by Merger::merge().                         *)
(*                                                                         *)
(* Objects live in a per-database store keyed by an object identity (the   *)
(* C++ pointer); the UUID is a field.  Timestamps are integer ticks,       *)
(* TicksPerSecond ticks to the second; Clock::serialized drops the part    *)
(* below the second.  Child lists are iterated in object-identity order.   *)
(***************************************************************************)
EXTENDS Integers, Sequences, FiniteSets, TLC

VARIABLES dbs,        \* side -> database
          clock,      \* Clock::currentDateTimeUtc(), in ticks
          edits,      \* number of writer edits made so far
          merges,     \* number of merge() calls made so far
          m_mode,     \* Merger::m_mode, the forced merge mode
          nextUuid,   \* source of Uuid::random()
          last,       \* record of the most recent merge() call
          status      \* "run", or "diverged" when merge() never returned

vars == <<dbs, clock, edits, merges, m_mode, nextUuid, last, status>>

----------------------------------------------------------------------------
(* Bounds *)

MaxEdits == 2
MaxMerges == 1
MaxRepeatEdits == 1
MaxRepeatMerges == 3
MaxEntryEdits == 4
MaxEntryMerges == 1
MaxForcedEdits == 2
MaxForcedMerges == 1
MaxCreateEdits == 2
MaxCreateMerges == 1
MaxGroupEdits == 2
MaxGroupMerges == 1
MaxIconEdits == 3
MaxIconMerges == 2
MaxNullEdits == 1
MaxNullMerges == 2
MaxNestedEdits == 3
MaxNestedMerges == 1
MaxPrecisionEdits == 2
MaxPrecisionMerges == 1
MaxSubtreeEdits == 1
MaxSubtreeMerges == 1
HistoryMaxItems == 2

(* Program constants *)

TicksPerSecond == 2
ModeDefault == "ModeDefault"

Sides == {"A", "B"}
Modes == {"KeepNewer", "KeepExisting", "KeepBoth", "Synchronize"}
Inherit == "Inherit"

Null == -1
RootId == 0
RootUuid == 0
G1 == 1
G2 == 2
G3 == 3
E1 == 10
Icon1 == 20
Icon2 == 21
Icon3 == 22
DefaultIconNumber == 48
FirstFreshUuid == 100
FirstCloneId == 50
Group3Name == 3

----------------------------------------------------------------------------
(* Clock *)

\* the time at the grain of the clock, nothing cut off
Serialized_native(t) == t

\* Clock::serialized: the time with the part below the second cut off
Serialized(t) == t - (t % TicksPerSecond)

----------------------------------------------------------------------------
(* Generic helpers *)

RECURSIVE SortedSeq(_)
SortedSeq(S) ==
    IF S = {} THEN <<>>
    ELSE LET m == CHOOSE x \in S : \A y \in S : x <= y
         IN  <<m>> \o SortedSeq(S \ {m})

Range(s) == {s[i] : i \in 1..Len(s)}

Without(f, x) == [y \in (DOMAIN f) \ {x} |-> f[y]]

With(f, x, v) == [y \in (DOMAIN f) \cup {x} |-> IF y = x THEN v ELSE f[y]]

----------------------------------------------------------------------------
(* Database queries: Group::entries, Group::children, findEntryByUuid, ... *)

entries(db, gid) == SortedSeq({i \in DOMAIN db.e : db.e[i].parent = gid})

children(db, gid) == SortedSeq({i \in DOMAIN db.g : db.g[i].parent = gid})

RECURSIVE ChainToRoot(_, _, _)
ChainToRoot(db, gid, fuel) ==
    IF gid = RootId THEN TRUE
    ELSE IF fuel = 0 \/ gid \notin DOMAIN db.g THEN FALSE
    ELSE ChainToRoot(db, db.g[gid].parent, fuel - 1)

\* the group is in the tree below the root group
GroupInTree(db, gid) == ChainToRoot(db, gid, Cardinality(DOMAIN db.g))

EntryInTree(db, eid) == GroupInTree(db, db.e[eid].parent)

findGroupByUuid(db, uuid) ==
    LET found == {i \in DOMAIN db.g : db.g[i].uuid = uuid /\ i # RootId /\ GroupInTree(db, i)}
    IN  IF found = {} THEN Null ELSE CHOOSE i \in found : \A j \in found : i <= j

findEntryByUuid(db, uuid) ==
    LET found == {i \in DOMAIN db.e : db.e[i].uuid = uuid /\ EntryInTree(db, i)}
    IN  IF found = {} THEN Null ELSE CHOOSE i \in found : \A j \in found : i <= j

RECURSIVE IsAncestor(_, _, _, _)
\* anc is gid or an ancestor of gid
IsAncestor(db, anc, gid, fuel) ==
    IF gid = anc THEN TRUE
    ELSE IF gid = Null \/ fuel = 0 \/ gid \notin DOMAIN db.g THEN FALSE
    ELSE IsAncestor(db, anc, db.g[gid].parent, fuel - 1)

\* Group::groupsRecursive(false): the descendant groups of gid
groupsRecursive(db, gid) ==
    {i \in DOMAIN db.g : i # gid /\ IsAncestor(db, gid, db.g[i].parent, Cardinality(DOMAIN db.g))}

\* Group::entriesRecursive(false): the entries of gid and of its descendants
entriesRecursive(db, gid) ==
    {i \in DOMAIN db.e : IsAncestor(db, gid, db.e[i].parent, Cardinality(DOMAIN db.g))}

RECURSIVE ModeOf(_, _, _)
\* Group::mergeMode(): Inherit delegates to the parent; a parent cycle of
\* inheriting groups never resolves
ModeOf(db, gid, fuel) ==
    IF gid = Null \/ gid \notin DOMAIN db.g THEN "KeepNewer"
    ELSE IF db.g[gid].mode # Inherit THEN db.g[gid].mode
    ELSE IF fuel = 0 THEN "Diverge"
    ELSE ModeOf(db, db.g[gid].parent, fuel - 1)

mergeMode(db, gid) == ModeOf(db, gid, Cardinality(DOMAIN db.g))

----------------------------------------------------------------------------
(* The writer: Entry and Group mutators (outside Merger.cpp) *)

HistoryItem(en) == [mod |-> en.mod, loc |-> en.loc, data |-> en.data]

\* Entry::truncateHistory(): drop the oldest items beyond historyMaxItems
truncateHistory(h) ==
    IF Len(h) > HistoryMaxItems THEN SubSeq(h, Len(h) - HistoryMaxItems + 1, Len(h)) ELSE h

\* Entry::beginUpdate(); set...(); Entry::endUpdate()
EntryUpdate(db, eid, v, now) ==
    LET en == db.e[eid]
    IN  [db EXCEPT !.e[eid] = [en EXCEPT !.data = [v |-> v, merged |-> en.data.merged],
                                          !.mod = now,
                                          !.hist = truncateHistory(Append(en.hist, HistoryItem(en)))]]

\* Entry::removeHistoryItems(items), Entry::addHistoryItem(item),
\* Entry::truncateHistory(): the history rewritten
EntrySetHistory(db, eid, hist, now, updateTimeinfo) ==
    [db EXCEPT !.e[eid].hist = hist,
               !.e[eid].mod = IF updateTimeinfo THEN now ELSE @]

\* the bookkeeping of a group whose list of entries changes: the group is
\* touched while its timestamp updates are on
GroupTouch(db, gid, now, updateTimeinfo) ==
    IF updateTimeinfo /\ gid \in DOMAIN db.g
    THEN [db EXCEPT !.g[gid].mod = now]
    ELSE db

\* Entry::setGroup(group)
EntrySetGroup(db, eid, gid, now, updateTimeinfo) ==
    IF db.e[eid].parent = gid THEN db
    ELSE [db EXCEPT !.e[eid].parent = gid,
                    !.e[eid].loc = IF updateTimeinfo THEN now ELSE @]

\* Group::setParent(parent)
GroupSetParent(db, gid, pid, now, updateTimeinfo) ==
    IF db.g[gid].parent = pid THEN db
    ELSE [db EXCEPT !.g[gid].parent = pid,
                    !.g[gid].loc = IF updateTimeinfo THEN now ELSE @]

\* the icon of a group: a built-in number, or the UUID of a custom icon with
\* the number 0
BuiltinIcon(number) == [number |-> number, uuid |-> Null]
CustomIcon(uuid) == [number |-> 0, uuid |-> uuid]

\* Group::setName(name)
GroupSetName(db, gid, v, now) ==
    [db EXCEPT !.g[gid].name = v, !.g[gid].mod = now]

Tombstone(uuid, t) == [uuid |-> uuid, deletionTime |-> t]

\* Entry::~Entry(): detach the entry and record a DeletedObject
DeleteEntry(db, eid, now) ==
    [db EXCEPT !.e = Without(db.e, eid),
               !.del = IF db.e[eid].parent # Null
                       THEN Append(@, Tombstone(db.e[eid].uuid, now)) ELSE @]

RECURSIVE DeleteEntries(_, _, _)
DeleteEntries(db, ids, now) ==
    IF ids = <<>> THEN db
    ELSE DeleteEntries(DeleteEntry(db, Head(ids), now), Tail(ids), now)

RECURSIVE DeleteGroup(_, _, _, _)
RECURSIVE DeleteGroups(_, _, _, _)
\* Group::~Group(): delete the entries, then the children, then record the
\* DeletedObject of the group itself
DeleteGroup(db, gid, now, fuel) ==
    IF fuel = 0 THEN db
    ELSE LET d1 == DeleteEntries(db, entries(db, gid), now)
             d2 == DeleteGroups(d1, children(d1, gid), now, fuel - 1)
         IN  [d2 EXCEPT !.g = Without(d2.g, gid),
                        !.del = IF db.g[gid].parent # Null
                                THEN Append(@, Tombstone(db.g[gid].uuid, now)) ELSE @]

DeleteGroups(db, ids, now, fuel) ==
    IF ids = <<>> THEN db
    ELSE DeleteGroups(DeleteGroup(db, Head(ids), now, fuel), Tail(ids), now, fuel)

----------------------------------------------------------------------------
(* Merger: moving, cloning and erasing objects of the target *)

Change(what, uuid) == [what |-> what, uuid |-> uuid]

\* a clone made without Entry::CloneIncludeHistory
cloneEntry_withoutHistory(db, rec, uuid, includeHistory) ==
    [db EXCEPT !.e = With(db.e, db.next,
                          [rec EXCEPT !.uuid = uuid, !.parent = Null, !.hist = << >>]),
               !.next = @ + 1]

\* Entry::clone(flags) followed by the first attach: the clone is a new
\* object of the target, not yet in any group
cloneEntry(db, rec, uuid, includeHistory) ==
    [db EXCEPT !.e = With(db.e, db.next,
                          [rec EXCEPT !.uuid = uuid,
                                      !.parent = Null,
                                      !.hist = IF includeHistory THEN @ ELSE << >>]),
               !.next = @ + 1]

\* Group::clone(Entry::CloneNoFlags, Group::CloneNoFlags): a shell without
\* entries and without children
cloneGroup(db, rec) ==
    [db EXCEPT !.g = With(db.g, db.next, [rec EXCEPT !.parent = Null]),
               !.next = @ + 1]

\* the move with the entry's timestamp updates left on
moveEntry_stamps(db, eid, gid) == EntrySetGroup(db, eid, gid, clock, TRUE)

\* the move with the timestamp updates of the two groups left on
moveEntry_touchesGroups(db, eid, gid) ==
    IF db.e[eid].parent = gid THEN db
    ELSE LET sourceGroup == db.e[eid].parent
             d1 == EntrySetGroup(db, eid, gid, clock, FALSE)
         IN  GroupTouch(GroupTouch(d1, sourceGroup, clock, TRUE), gid, clock, TRUE)

\* Merger::moveEntry: setGroup with the timestamp updates of the group the
\* entry leaves, of the group it enters and of the entry switched off
moveEntry(db, eid, gid) ==
    IF db.e[eid].parent = gid THEN db
    ELSE LET sourceGroup == db.e[eid].parent
             sourceGroupUpdateTimeInfo == FALSE
             targetGroupUpdateTimeInfo == FALSE
             entryUpdateTimeInfo == FALSE
             d1 == EntrySetGroup(db, eid, gid, clock, entryUpdateTimeInfo)
         IN  GroupTouch(GroupTouch(d1, sourceGroup, clock, sourceGroupUpdateTimeInfo),
                        gid, clock, targetGroupUpdateTimeInfo)

\* Merger::moveGroup: setParent with the timestamp updates switched off
moveGroup(db, gid, pid) ==
    IF db.g[gid].parent = pid THEN db
    ELSE GroupSetParent(db, gid, pid, clock, FALSE)

\* the delete without the list of DeletedObjects put back: the tombstone the
\* delete records stays
eraseEntry_mintsTombstone(db, eid) == DeleteEntry(db, eid, clock)

\* Merger::eraseEntry: delete the entry, then put back the list of
\* DeletedObjects saved before the delete
eraseEntry(db, eid) ==
    LET deletions == db.del
        parentGroup == db.e[eid].parent
        groupUpdateTimeInfo == FALSE
        deleted == GroupTouch(DeleteEntry(db, eid, clock), parentGroup, clock, groupUpdateTimeInfo)
    IN  [deleted EXCEPT !.del = deletions]

\* Merger::eraseGroup
eraseGroup(db, gid) ==
    LET deletions == db.del
        deleted == DeleteGroup(db, gid, clock, Cardinality(DOMAIN db.g))
    IN  [deleted EXCEPT !.del = deletions]

\* Merger::markOlderEntry: the attribute write goes through the entry's
\* own setters, which stamp the entry
markOlderEntry(db, eid) ==
    [db EXCEPT !.e[eid].data.merged = TRUE, !.e[eid].mod = clock]

----------------------------------------------------------------------------
(* Merger::mergeHistory *)

\* Entry::equals(other, CompareItemIgnoreMilliseconds) on history items
ItemEquals(a, b) ==
    /\ a.data = b.data
    /\ Serialized(a.mod) = Serialized(b.mod)
    /\ Serialized(a.loc) = Serialized(b.loc)

RECURSIVE PutAll(_, _, _)
\* merged[key] = item for every item, later items replacing earlier ones
\* (overwrite) or leaving them (not overwrite)
PutAll(merged, items, overwrite) ==
    IF items = <<>> THEN merged
    ELSE LET it == Head(items)
             key == Serialized(it.mod)
         IN  PutAll(IF key \in DOMAIN merged /\ ~overwrite THEN merged ELSE With(merged, key, it),
                    Tail(items), overwrite)

\* QMap::values(): the values in ascending key order
Values(merged) ==
    LET keys == SortedSeq(DOMAIN merged)
    IN  [i \in 1..Len(keys) |-> merged[keys[i]]]

\* QList::value(i) is null unless 0 <= i < count
HasValue(list, i) == i >= 0 /\ i < Len(list)

\* the comparison loop: position count - i of both lists, for i below maxItems
HistoryChanged(old, new) ==
    \E i \in 0..(HistoryMaxItems - 1) :
        LET oi == Len(old) - i
            ni == Len(new) - i
        IN  /\ HasValue(old, oi) \/ HasValue(new, ni)
            /\ ~(HasValue(old, oi) /\ HasValue(new, ni) /\ ItemEquals(old[oi + 1], new[ni + 1]))

\* the source items put behind the target items, without the map keyed by
\* modification time
mergeHistory_concatenates(sourceEntry, targetEntry) ==
    [changed |-> sourceEntry.hist # << >>, hist |-> targetEntry.hist \o sourceEntry.hist]

\* the history rewritten with the entry's timestamp updates left on
replaceHistory_stamps(db, eid, hist) == EntrySetHistory(db, eid, hist, clock, TRUE)

\* the end of mergeHistory: the history items removed and the merged ones
\* added, with the timestamp updates of the entry switched off
replaceHistory(db, eid, hist) == EntrySetHistory(db, eid, hist, clock, FALSE)

\* the merged history of targetEntry after folding sourceEntry into it
mergeHistory(sourceEntry, targetEntry) ==
    LET m1 == PutAll(<< >>, targetEntry.hist, TRUE)
        m2 == PutAll(m1, sourceEntry.hist, FALSE)
        targetModificationTime == Serialized(targetEntry.mod)
        sourceModificationTime == Serialized(sourceEntry.mod)
        m3 == IF targetModificationTime < sourceModificationTime
                 /\ targetModificationTime \notin DOMAIN m2
              THEN With(m2, targetModificationTime, HistoryItem(targetEntry))
              ELSE IF targetModificationTime > sourceModificationTime
                      /\ sourceModificationTime \notin DOMAIN m2
              THEN With(m2, sourceModificationTime, HistoryItem(sourceEntry))
              ELSE m2
        updatedHistoryItems == Values(m3)
        changed == HistoryChanged(targetEntry.hist, updatedHistoryItems)
    IN  [changed |-> changed,
         hist |-> IF changed THEN truncateHistory(updatedHistoryItems) ELSE targetEntry.hist]

----------------------------------------------------------------------------
(* Merger::resolveEntryConflict, Merger::resolveGroupConflict *)

\* the changes of the deletion pass left out of the list
Record_forgetsDeletions(st, what, uuid) ==
    IF what \in {"Deleting child", "Deleting orphan", "Changed deleted objects"}
    THEN st
    ELSE [st EXCEPT !.ch = Append(@, Change(what, uuid))]

\* changes << tr(...)
Record(st, what, uuid) == [st EXCEPT !.ch = Append(@, Change(what, uuid))]

KeepBoth(st, sourceEntry, te, tg, timeTarget, timeSource) ==
    IF timeTarget = timeSource THEN st
    ELSE LET cid == st.t.next
             d1 == cloneEntry(st.t, sourceEntry, st.nu, TRUE)
             d2 == moveEntry(d1, cid, tg)
             d3 == markOlderEntry(d2, IF timeTarget > timeSource THEN cid ELSE te)
         IN  Record([st EXCEPT !.t = d3, !.nu = @ + 1],
                    IF timeTarget > timeSource THEN "Adding backup for older source"
                                               ELSE "Adding backup for older target",
                    sourceEntry.uuid)

\* the comparison turned round: the source's copy replaces a later target entry
KeepNewer_overwritesNewer(st, sourceEntry, te, timeTarget, timeSource) ==
    IF timeTarget > timeSource
    THEN LET cid == st.t.next
             currentGroup == st.t.e[te].parent
             d1 == cloneEntry(st.t, sourceEntry, sourceEntry.uuid, TRUE)
             d2 == moveEntry(d1, cid, currentGroup)
             d3 == eraseEntry(d2, te)
         IN  Record([st EXCEPT !.t = d3], "Overwriting", sourceEntry.uuid)
    ELSE st

KeepNewer(st, sourceEntry, te, timeTarget, timeSource) ==
    IF timeTarget < timeSource
    THEN LET cid == st.t.next
             currentGroup == st.t.e[te].parent
             d1 == cloneEntry(st.t, sourceEntry, sourceEntry.uuid, TRUE)
             d2 == moveEntry(d1, cid, currentGroup)
             d3 == eraseEntry(d2, te)
         IN  Record([st EXCEPT !.t = d3], "Overwriting", sourceEntry.uuid)
    ELSE st

Synchronize(st, sourceEntry, te, timeTarget, timeSource) ==
    IF timeTarget < timeSource
    THEN LET cid == st.t.next
             currentGroup == st.t.e[te].parent
             d1 == cloneEntry(st.t, sourceEntry, sourceEntry.uuid, TRUE)
             d2 == moveEntry(d1, cid, currentGroup)
             h == mergeHistory(d2.e[te], d2.e[cid])
             d3 == IF h.changed THEN replaceHistory(d2, cid, h.hist) ELSE d2
             d4 == eraseEntry(d3, te)
         IN  Record([st EXCEPT !.t = d4], "Synchronizing from newer source", sourceEntry.uuid)
    ELSE LET h == mergeHistory(sourceEntry, st.t.e[te])
         IN  IF h.changed
             THEN Record([st EXCEPT !.t = replaceHistory(@, te, h.hist)],
                         "Synchronizing from older source", sourceEntry.uuid)
             ELSE st

\* log of the conflicts: the entry, the mode that resolved it and the target
\* group of the context
Resolved(uuid, mode, group) == [uuid |-> uuid, mode |-> mode, group |-> group]

\* the forced mode left out: always the mode of the current target group
resolveEntryConflict_ignoresForcedMode(st, sourceEntry, te, tg) ==
    LET timeTarget == Serialized(st.t.e[te].mod)
        timeSource == Serialized(sourceEntry.mod)
        mode == mergeMode(st.t, tg)
        seen == [st EXCEPT !.rs = Append(@, Resolved(sourceEntry.uuid, mode, tg))]
    IN  CASE mode = "Diverge"      -> [seen EXCEPT !.div = TRUE]
          [] mode = "KeepBoth"     -> KeepBoth(seen, sourceEntry, te, tg, timeTarget, timeSource)
          [] mode = "KeepNewer"    -> KeepNewer(seen, sourceEntry, te, timeTarget, timeSource)
          [] mode = "KeepExisting" -> seen
          [] mode = "Synchronize"  -> Synchronize(seen, sourceEntry, te, timeTarget, timeSource)
          [] OTHER                 -> seen

\* KeepExisting resolved the way KeepNewer is
resolveEntryConflict_existingAsNewer(st, sourceEntry, te, tg) ==
    LET timeTarget == Serialized(st.t.e[te].mod)
        timeSource == Serialized(sourceEntry.mod)
        mode == IF m_mode = ModeDefault THEN mergeMode(st.t, tg) ELSE m_mode
        seen == [st EXCEPT !.rs = Append(@, Resolved(sourceEntry.uuid, mode, tg))]
    IN  CASE mode = "Diverge"      -> [seen EXCEPT !.div = TRUE]
          [] mode = "KeepBoth"     -> KeepBoth(seen, sourceEntry, te, tg, timeTarget, timeSource)
          [] mode = "KeepNewer"    -> KeepNewer(seen, sourceEntry, te, timeTarget, timeSource)
          [] mode = "KeepExisting" -> KeepNewer(seen, sourceEntry, te, timeTarget, timeSource)
          [] mode = "Synchronize"  -> Synchronize(seen, sourceEntry, te, timeTarget, timeSource)
          [] OTHER                 -> seen

resolveEntryConflict(st, sourceEntry, te, tg) ==
    LET timeTarget == Serialized(st.t.e[te].mod)
        timeSource == Serialized(sourceEntry.mod)
        mode == IF m_mode = ModeDefault THEN mergeMode(st.t, tg) ELSE m_mode
        seen == [st EXCEPT !.rs = Append(@, Resolved(sourceEntry.uuid, mode, tg))]
    IN  CASE mode = "Diverge"      -> [seen EXCEPT !.div = TRUE]
          [] mode = "KeepBoth"     -> KeepBoth(seen, sourceEntry, te, tg, timeTarget, timeSource)
          [] mode = "KeepNewer"    -> KeepNewer(seen, sourceEntry, te, timeTarget, timeSource)
          [] mode = "KeepExisting" -> seen
          [] mode = "Synchronize"  -> Synchronize(seen, sourceEntry, te, timeTarget, timeSource)
          [] OTHER                 -> seen

\* The setters of Group as resolveGroupConflict calls them, with the
\* timestamp updates left on: a new value stamps the group
setName(db, gid, name) ==
    IF db.g[gid].name = name THEN db ELSE GroupSetName(db, gid, name, clock)

setNotes(db, gid, notes) ==
    IF db.g[gid].notes = notes THEN db
    ELSE [db EXCEPT !.g[gid].notes = notes, !.g[gid].mod = clock]

\* Group::setIcon(int iconNumber)
setIconNumber(db, gid, iconNumber) ==
    IF db.g[gid].icon.number # iconNumber \/ db.g[gid].icon.uuid # Null
    THEN [db EXCEPT !.g[gid].icon = BuiltinIcon(iconNumber), !.g[gid].mod = clock]
    ELSE db

\* Group::setIcon(const Uuid& uuid); nothing but an assertion keeps the null
\* UUID out
setIconUuid(db, gid, uuid) ==
    IF db.g[gid].icon.uuid # uuid
    THEN [db EXCEPT !.g[gid].icon = CustomIcon(uuid), !.g[gid].mod = clock]
    ELSE db

setExpiryTime(db, gid, dateTime) ==
    IF db.g[gid].expiry = dateTime THEN db
    ELSE [db EXCEPT !.g[gid].expiry = dateTime, !.g[gid].mod = clock]

\* the body of the overwrite in resolveGroupConflict: name, notes, icon and
\* expiry time of the source's group written to the target's
overwriteGroup(db, sourceChildGroup, tc) ==
    LET d1 == setName(db, tc, sourceChildGroup.name)
        d2 == setNotes(d1, tc, sourceChildGroup.notes)
        d3 == IF sourceChildGroup.icon.number = 0
              THEN setIconUuid(d2, tc, sourceChildGroup.icon.uuid)
              ELSE setIconNumber(d2, tc, sourceChildGroup.icon.number)
    IN  setExpiryTime(d3, tc, sourceChildGroup.expiry)

\* a group overwrite that is not entered in the list of changes
resolveGroupConflict_unrecorded(st, sourceChildGroup, tc) ==
    IF st.t.g[tc].mod < sourceChildGroup.mod
    THEN [st EXCEPT !.t = overwriteGroup(st.t, sourceChildGroup, tc)]
    ELSE st

resolveGroupConflict(st, sourceChildGroup, tc) ==
    LET timeExisting == st.t.g[tc].mod
        timeOther == sourceChildGroup.mod
    IN  IF timeExisting < timeOther
        THEN Record([st EXCEPT !.t = overwriteGroup(st.t, sourceChildGroup, tc)],
                    "Overwriting", sourceChildGroup.uuid)
        ELSE st

----------------------------------------------------------------------------
(* Merger::mergeGroup: the structural pass *)

\* the target entry looked up among the entries of the current target group
\* only, not in the whole target tree
mergeEntry_localLookup(st, se, tg) ==
    LET sourceEntry == st.s.e[se]
        found == {i \in DOMAIN st.t.e : st.t.e[i].uuid = sourceEntry.uuid /\ st.t.e[i].parent = tg}
    IN  IF found = {}
        THEN LET cid == st.t.next
                 d1 == cloneEntry(st.t, sourceEntry, sourceEntry.uuid, TRUE)
                 d2 == moveEntry(d1, cid, tg)
             IN  Record([st EXCEPT !.t = d2], "Creating missing", sourceEntry.uuid)
        ELSE resolveEntryConflict(st, sourceEntry, CHOOSE i \in found : TRUE, tg)

\* a missing entry taken out of the source database and put into the target,
\* instead of a clone of it
mergeEntry_movesSource(st, se, tg) ==
    LET sourceEntry == st.s.e[se]
        te == findEntryByUuid(st.t, sourceEntry.uuid)
    IN  IF te = Null
        THEN LET cid == st.t.next
                 d1 == cloneEntry(st.t, sourceEntry, sourceEntry.uuid, TRUE)
                 d2 == moveEntry(d1, cid, tg)
             IN  Record([st EXCEPT !.t = d2, !.s.e = Without(@, se)],
                        "Creating missing", sourceEntry.uuid)
        ELSE resolveEntryConflict(st, sourceEntry, te, tg)

\* one iteration of the loop over the source entries
mergeEntry(st, se, tg) ==
    LET sourceEntry == st.s.e[se]
        te == findEntryByUuid(st.t, sourceEntry.uuid)
    IN  IF te = Null
        THEN LET cid == st.t.next
                 d1 == cloneEntry(st.t, sourceEntry, sourceEntry.uuid, TRUE)
                 d2 == moveEntry(d1, cid, tg)
             IN  Record([st EXCEPT !.t = d2], "Creating missing", sourceEntry.uuid)
        ELSE LET locationChanged == st.t.e[te].loc < sourceEntry.loc
                 st1 == IF locationChanged /\ st.t.e[te].parent # tg
                        THEN Record([st EXCEPT !.t = moveEntry(st.t, te, tg)],
                                    "Relocating", sourceEntry.uuid)
                        ELSE st
             IN  resolveEntryConflict(st1, sourceEntry, te, tg)

\* the group branch as the entry branch is written: a relocation that leaves
\* the location_changed of the target's group as it was
mergeChildGroup_keepsLocationChanged(st, sc, tg) ==
    LET sourceChildGroup == st.s.g[sc]
        tc == findGroupByUuid(st.t, sourceChildGroup.uuid)
    IN  IF tc = Null
        THEN LET cid == st.t.next
                 d1 == cloneGroup(st.t, sourceChildGroup)
                 d2 == moveGroup(d1, cid, tg)
                 d3 == [d2 EXCEPT !.g[cid].loc = sourceChildGroup.loc]
             IN  [st |-> Record([st EXCEPT !.t = d3], "Creating missing", sourceChildGroup.uuid),
                  tc |-> cid]
        ELSE LET locationChanged == st.t.g[tc].loc < sourceChildGroup.loc
                 st1 == IF locationChanged /\ st.t.g[tc].parent # tg
                        THEN Record([st EXCEPT !.t = moveGroup(st.t, tc, tg)],
                                    "Relocating", sourceChildGroup.uuid)
                        ELSE st
             IN  [st |-> resolveGroupConflict(st1, sourceChildGroup, tc), tc |-> tc]

\* the part of one iteration of the loop over the source child groups that
\* precedes the recursion; tc is the target child the recursion works on
mergeChildGroup(st, sc, tg) ==
    LET sourceChildGroup == st.s.g[sc]
        tc == findGroupByUuid(st.t, sourceChildGroup.uuid)
    IN  IF tc = Null
        THEN LET cid == st.t.next
                 d1 == cloneGroup(st.t, sourceChildGroup)
                 d2 == moveGroup(d1, cid, tg)
                 d3 == [d2 EXCEPT !.g[cid].loc = sourceChildGroup.loc]
             IN  [st |-> Record([st EXCEPT !.t = d3], "Creating missing", sourceChildGroup.uuid),
                  tc |-> cid]
        ELSE LET locationChanged == st.t.g[tc].loc < sourceChildGroup.loc
                 st1 == IF locationChanged /\ st.t.g[tc].parent # tg
                        THEN LET d1 == moveGroup(st.t, tc, tg)
                                 d2 == [d1 EXCEPT !.g[tc].loc = sourceChildGroup.loc]
                             IN  Record([st EXCEPT !.t = d2], "Relocating", sourceChildGroup.uuid)
                        ELSE st
             IN  [st |-> resolveGroupConflict(st1, sourceChildGroup, tc), tc |-> tc]

RECURSIVE mergeGroup(_, _, _)
RECURSIVE mergeEntries(_, _, _)
RECURSIVE mergeChildren(_, _, _)

mergeEntries(st, ses, tg) ==
    IF ses = <<>> \/ st.div THEN st
    ELSE mergeEntries(mergeEntry(st, Head(ses), tg), Tail(ses), tg)

mergeChildren(st, scs, tg) ==
    IF scs = <<>> \/ st.div THEN st
    ELSE LET r == mergeChildGroup(st, Head(scs), tg)
         IN  mergeChildren(mergeGroup(r.st, Head(scs), r.tc), Tail(scs), tg)

\* the source lists are read once, before the loops
mergeGroup(st, sg, tg) ==
    LET sourceEntries == entries(st.s, sg)
        sourceChildGroups == children(st.s, sg)
    IN  mergeChildren(mergeEntries(st, sourceEntries, tg), sourceChildGroups, tg)

----------------------------------------------------------------------------
(* Merger::mergeDeletions: the deletion pass *)

RECURSIVE CollectDeletions(_, _, _)
\* the first loop: merge the two lists by UUID and sort the UUIDs into live
\* entries, live groups and plain tombstones
CollectDeletions(acc, db, objects) ==
    IF objects = <<>> THEN acc
    ELSE LET object == Head(objects)
             entry == findEntryByUuid(db, object.uuid)
             group == findGroupByUuid(db, object.uuid)
             acc1 == IF object.uuid \notin DOMAIN acc.mergedDeletions
                     THEN LET a == [acc EXCEPT !.mergedDeletions = With(@, object.uuid, object)]
                          IN  IF entry # Null THEN [a EXCEPT !.entries = Append(@, entry)]
                              ELSE IF group # Null THEN [a EXCEPT !.groups = Append(@, group)]
                              ELSE [a EXCEPT !.deletions = Append(@, object)]
                     ELSE IF acc.mergedDeletions[object.uuid].deletionTime > object.deletionTime
                     THEN [acc EXCEPT !.mergedDeletions[object.uuid] = object]
                     ELSE acc
         IN  CollectDeletions(acc1, db, Tail(objects))

\* log of the deletion pass: the objects in the order in which they are judged,
\* and whether a group had content when it was judged
Evaluated(kind, uuid, content) == [kind |-> kind, uuid |-> uuid, content |-> content]

\* the comparison the wrong way round
entryIsKept_reversed(db, entry, object) == db.e[entry].mod < object.deletionTime

\* "keep deleted entry since it was changed after deletion date"
entryIsKept(db, entry, object) == db.e[entry].mod > object.deletionTime

\* only the child groups are looked at, not the entries
groupHasContent_groupsOnly(db, group) == groupsRecursive(db, group) # {}

\* "keep deleted group since it contains undeleted content"
groupHasContent(db, group) ==
    entriesRecursive(db, group) # {} \/ groupsRecursive(db, group) # {}

\* the comparison the wrong way round
groupIsNewer_reversed(db, group, object) == db.g[group].mod < object.deletionTime

\* "keep deleted group since it was changed after deletion date"
groupIsNewer(db, group, object) == db.g[group].mod > object.deletionTime

RECURSIVE DeleteQueuedEntries(_, _)
\* the second loop: every queued entry is kept if it was modified after its
\* deletion, and erased otherwise
DeleteQueuedEntries(acc, queue) ==
    IF queue = <<>> THEN acc
    ELSE LET entry == Head(queue)
             uuid == acc.st.t.e[entry].uuid
             object == acc.mergedDeletions[uuid]
             seen == [acc EXCEPT !.st.ev = Append(@, Evaluated("entry", uuid, FALSE))]
         IN  IF entryIsKept(acc.st.t, entry, object)
             THEN DeleteQueuedEntries(seen, Tail(queue))
             ELSE DeleteQueuedEntries(
                      [seen EXCEPT !.deletions = Append(@, object),
                                   !.st = Record([@ EXCEPT !.t = eraseEntry(@, entry)],
                                                 "Deleting child", uuid)],
                      Tail(queue))

RECURSIVE DeleteQueuedGroups(_, _, _)
\* the third loop: a group waits at the tail of the queue while one of its
\* children is queued; then it is kept if modified after its deletion or if
\* it still has content, and erased otherwise
DeleteQueuedGroups(acc, queue, fuel) ==
    IF queue = <<>> THEN acc
    ELSE IF fuel = 0 THEN [acc EXCEPT !.st.div = TRUE]
    ELSE LET group == Head(queue)
             groups == Tail(queue)
             uuid == acc.st.t.g[group].uuid
             object == acc.mergedDeletions[uuid]
             content == entriesRecursive(acc.st.t, group) # {} \/ groupsRecursive(acc.st.t, group) # {}
             seen == [acc EXCEPT !.st.ev = Append(@, Evaluated("group", uuid, content))]
         IN  IF Range(children(acc.st.t, group)) \cap Range(groups) # {}
             THEN DeleteQueuedGroups(acc, Append(groups, group), fuel - 1)
             ELSE IF groupIsNewer(acc.st.t, group, object)
             THEN DeleteQueuedGroups(seen, groups, fuel - 1)
             ELSE IF groupHasContent(acc.st.t, group)
             THEN DeleteQueuedGroups(seen, groups, fuel - 1)
             ELSE DeleteQueuedGroups(
                      [seen EXCEPT !.deletions = Append(@, object),
                                   !.st = Record([@ EXCEPT !.t = eraseGroup(@, group)],
                                                 "Deleting child", uuid)],
                      groups, fuel - 1)

mergeDeletions(st) ==
    IF st.div THEN st
    ELSE LET targetDeletions == st.t.del
             sourceDeletions == st.s.del
             a0 == [mergedDeletions |-> << >>, deletions |-> << >>,
                    entries |-> << >>, groups |-> << >>]
             a1 == CollectDeletions(a0, st.t, targetDeletions \o sourceDeletions)
             a2 == DeleteQueuedEntries([mergedDeletions |-> a1.mergedDeletions,
                                        deletions |-> a1.deletions, st |-> st],
                                       a1.entries)
             a3 == DeleteQueuedGroups(a2, a1.groups, (Len(a1.groups) + 1) * (Len(a1.groups) + 1))
             st1 == IF a3.deletions # a3.st.t.del
                    THEN Record(a3.st, "Changed deleted objects", Null)
                    ELSE a3.st
         IN  [st1 EXCEPT !.t.del = a3.deletions]

----------------------------------------------------------------------------
(* Merger::mergeMetadata: the metadata pass *)

RECURSIVE AddMissingIcons(_, _)
AddMissingIcons(st, ids) ==
    IF ids = <<>> THEN st
    ELSE LET customIconId == Head(ids)
         IN  AddMissingIcons(
                 IF customIconId \notin DOMAIN st.t.icons
                 THEN Record([st EXCEPT !.t.icons = With(@, customIconId, st.s.icons[customIconId])],
                             "Adding missing icon", customIconId)
                 ELSE st,
                 Tail(ids))

\* the target's table of custom icons replaced by the source's
mergeMetadata_replacesTable(st) ==
    IF st.div THEN st ELSE [st EXCEPT !.t.icons = st.s.icons]

mergeMetadata(st) ==
    IF st.div THEN st ELSE AddMissingIcons(st, SortedSeq(DOMAIN st.s.icons))

----------------------------------------------------------------------------
(* Merger::merge *)

IndexOf(seq, x) == CHOOSE k \in 1..Len(seq) : seq[k] = x

\* Object identities are pointers: between two merge() calls the objects of
\* the tree are renamed to their UUIDs and the others (objects outside the
\* tree, further objects of a UUID) to the first free identities, which
\* changes nothing the program can observe
Normalize(db) ==
    LET firstG(i) == GroupInTree(db, i) /\ findGroupByUuid(db, db.g[i].uuid) = i
        firstE(i) == EntryInTree(db, i) /\ findEntryByUuid(db, db.e[i].uuid) = i
        otherG == SortedSeq({i \in (DOMAIN db.g) \ {RootId} : ~firstG(i)})
        otherE == SortedSeq({i \in DOMAIN db.e : ~firstE(i)})
        mapG(i) == IF i \notin DOMAIN db.g THEN Null
                   ELSE IF i = RootId THEN RootId
                   ELSE IF firstG(i) THEN db.g[i].uuid
                   ELSE FirstCloneId + IndexOf(otherG, i) - 1
        mapE(i) == IF firstE(i) THEN db.e[i].uuid
                   ELSE FirstCloneId + IndexOf(otherE, i) - 1
    IN  [g |-> [k \in {mapG(i) : i \in DOMAIN db.g} |->
                   LET i == CHOOSE j \in DOMAIN db.g : mapG(j) = k
                   IN  [db.g[i] EXCEPT !.parent = mapG(@)]],
         e |-> [k \in {mapE(i) : i \in DOMAIN db.e} |->
                   LET i == CHOOSE j \in DOMAIN db.e : mapE(j) = k
                   IN  [db.e[i] EXCEPT !.parent = mapG(@)]],
         del |-> db.del,
         icons |-> db.icons,
         next |-> FirstCloneId + (IF Len(otherG) > Len(otherE) THEN Len(otherG) ELSE Len(otherE))]

\* the deletion pass before the structural pass
merge_deletionsFirst(s, t) ==
    LET st0 == [s |-> s, t |-> t, ch |-> << >>, ev |-> << >>, rs |-> << >>,
                div |-> FALSE, nu |-> nextUuid]
        st1 == mergeDeletions(st0)
        st2 == mergeGroup(st1, RootId, RootId)
        st3 == mergeMetadata(st2)
        changed == st3.ch # << >>
    IN  [s |-> st3.s, t |-> Normalize(st3.t), ch |-> st3.ch, ev |-> st3.ev, div |-> st3.div, nu |-> st3.nu,
         rs |-> st3.rs, structural |-> st2.t, marked |-> changed, ret |-> changed]

\* the three passes in order, on the root groups of source s and target t
merge(s, t) ==
    LET st0 == [s |-> s, t |-> t, ch |-> << >>, ev |-> << >>, rs |-> << >>,
                div |-> FALSE, nu |-> nextUuid]
        st1 == mergeGroup(st0, RootId, RootId)
        st2 == mergeDeletions(st1)
        st3 == mergeMetadata(st2)
        changed == st3.ch # << >>
    IN  [s |-> st3.s, t |-> Normalize(st3.t), ch |-> st3.ch, ev |-> st3.ev, div |-> st3.div, nu |-> st3.nu,
         rs |-> st3.rs, structural |-> st1.t, marked |-> changed, ret |-> changed]

\* the pair of groups ignored: the structural pass starts from the roots
mergeGroupPair_fromRoots(s, t, sourceGroup, targetGroup) == merge(s, t)

\* Merger(sourceGroup, targetGroup).merge(): the context holds the two
\* databases and their root groups, and the pair of groups to start from
mergeGroupPair(s, t, sourceGroup, targetGroup) ==
    LET st0 == [s |-> s, t |-> t, ch |-> << >>, ev |-> << >>, rs |-> << >>,
                div |-> FALSE, nu |-> nextUuid]
        st1 == mergeGroup(st0, sourceGroup, targetGroup)
        st2 == mergeDeletions(st1)
        st3 == mergeMetadata(st2)
        changed == st3.ch # << >>
    IN  [s |-> st3.s, t |-> Normalize(st3.t), ch |-> st3.ch, ev |-> st3.ev, div |-> st3.div, nu |-> st3.nu,
         rs |-> st3.rs, structural |-> st1.t, marked |-> changed, ret |-> changed]

----------------------------------------------------------------------------
(* Initial databases: TestMerge::createTestDatabase and its clone *)

NewGroup(uuid, parent, t, mode) ==
    [uuid |-> uuid, parent |-> parent, mod |-> t, loc |-> t, name |-> 0, mode |-> mode,
     notes |-> 0, icon |-> BuiltinIcon(DefaultIconNumber), expiry |-> 0]

NewEntry(uuid, parent, t) ==
    [uuid |-> uuid, parent |-> parent, mod |-> t, loc |-> t,
     data |-> [v |-> 0, merged |-> FALSE],
     hist |-> <<[mod |-> t - TicksPerSecond, loc |-> t - TicksPerSecond,
                 data |-> [v |-> 0, merged |-> FALSE]]>>]

EmptyDatabase(mode) ==
    [g |-> (RootId :> NewGroup(RootUuid, Null, 0, mode)),
     e |-> << >>,
     del |-> << >>,
     icons |-> << >>,
     next |-> FirstCloneId]

TestDatabase(mode) ==
    [g |-> (RootId :> NewGroup(RootUuid, Null, 0, mode))
           @@ (G1 :> NewGroup(G1, RootId, TicksPerSecond, Inherit))
           @@ (G2 :> NewGroup(G2, RootId, TicksPerSecond, Inherit)),
     e |-> (E1 :> NewEntry(E1, G1, TicksPerSecond)),
     del |-> << >>,
     icons |-> (Icon1 :> 1),
     next |-> FirstCloneId]

\* the two sides after each moved one of the two groups into the other:
\* side A moved G1 into G2, then side B moved G2 into G1
CrossedDatabase(mode, side) ==
    LET db == TestDatabase(mode)
    IN  IF side = "A"
        THEN GroupSetParent(db, G1, G2, 2 * TicksPerSecond, TRUE)
        ELSE GroupSetParent(db, G2, G1, 3 * TicksPerSecond, TRUE)

Layouts == {"clone", "empty", "crossed"}

InitialDatabase(layout, mode, side) ==
    CASE layout = "clone"   -> TestDatabase(mode)
      [] layout = "empty"   -> IF side = "A" THEN TestDatabase(mode) ELSE EmptyDatabase(mode)
      [] layout = "crossed" -> CrossedDatabase(mode, side)

NoMerge(layout) == [kind |-> "none", src |-> "", tgt |-> "", layout |-> layout, trail |-> << >>]

Init ==
    /\ \E mode \in Modes : \E layout \in Layouts :
         /\ dbs = [s \in Sides |-> InitialDatabase(layout, mode, s)]
         /\ last = NoMerge(layout)
         /\ clock = IF layout = "crossed" THEN 3 * TicksPerSecond ELSE TicksPerSecond
    /\ edits = 0
    /\ merges = 0
    /\ m_mode = ModeDefault
    /\ nextUuid = FirstFreshUuid
    /\ status = "run"

----------------------------------------------------------------------------
(* Writer actions: one user edit on one side, after the clock advanced *)

CanEdit(maxEdits) == status = "run" /\ merges = 0 /\ edits < maxEdits

EditDone(s, db, d) ==
    /\ dbs' = [dbs EXCEPT ![s] = db]
    /\ clock' = clock + d
    /\ edits' = edits + 1
    /\ UNCHANGED <<merges, m_mode, nextUuid, last, status>>

EditEntry(s, d, maxEdits) ==
    /\ CanEdit(maxEdits)
    /\ \E eid \in DOMAIN dbs[s].e :
          EditDone(s, EntryUpdate(dbs[s], eid, clock + d, clock + d), d)

MoveEntry(s, d, maxEdits) ==
    /\ CanEdit(maxEdits)
    /\ \E eid \in DOMAIN dbs[s].e : \E gid \in DOMAIN dbs[s].g :
          /\ dbs[s].e[eid].parent # gid
          /\ EditDone(s, EntrySetGroup(dbs[s], eid, gid, clock + d, TRUE), d)

MoveGroup(s, d, maxEdits) ==
    /\ CanEdit(maxEdits)
    /\ \E gid \in (DOMAIN dbs[s].g) \ {RootId} : \E pid \in DOMAIN dbs[s].g :
          /\ dbs[s].g[gid].parent # pid
          /\ ~IsAncestor(dbs[s], gid, pid, Cardinality(DOMAIN dbs[s].g))
          /\ EditDone(s, GroupSetParent(dbs[s], gid, pid, clock + d, TRUE), d)

EditGroup(s, d, maxEdits) ==
    /\ CanEdit(maxEdits)
    /\ \E gid \in (DOMAIN dbs[s].g) \ {RootId} :
          EditDone(s, GroupSetName(dbs[s], gid, clock + d, clock + d), d)

RemoveEntry(s, d, maxEdits) ==
    /\ CanEdit(maxEdits)
    /\ \E eid \in DOMAIN dbs[s].e :
          EditDone(s, DeleteEntry(dbs[s], eid, clock + d), d)

RemoveGroup(s, d, maxEdits) ==
    /\ CanEdit(maxEdits)
    /\ \E gid \in (DOMAIN dbs[s].g) \ {RootId} :
          EditDone(s, DeleteGroup(dbs[s], gid, clock + d, Cardinality(DOMAIN dbs[s].g)), d)

Edit(s, d, maxEdits) ==
    \/ EditEntry(s, d, maxEdits)
    \/ MoveEntry(s, d, maxEdits)
    \/ MoveGroup(s, d, maxEdits)
    \/ EditGroup(s, d, maxEdits)
    \/ RemoveEntry(s, d, maxEdits)
    \/ RemoveGroup(s, d, maxEdits)

----------------------------------------------------------------------------
(* The data model: live objects, tombstones, well-formedness *)

\* the live objects of a database: the groups and entries of the tree
LiveGroups(db) == {i \in (DOMAIN db.g) \ {RootId} : GroupInTree(db, i)}
LiveEntries(db) == {i \in DOMAIN db.e : EntryInTree(db, i)}
LiveGroupUuids(db) == {db.g[i].uuid : i \in LiveGroups(db)}
LiveEntryUuids(db) == {db.e[i].uuid : i \in LiveEntries(db)}
LiveUuids(db) == LiveGroupUuids(db) \cup LiveEntryUuids(db)
TombstoneUuids(db) == {db.del[k].uuid : k \in 1..Len(db.del)}
AllUuids(db) == LiveUuids(db) \cup TombstoneUuids(db)

TombstonesOf(db, u) == {k \in 1..Len(db.del) : db.del[k].uuid = u}
LiveObjectsOf(db, u) ==
    Cardinality({i \in LiveGroups(db) : db.g[i].uuid = u})
    + Cardinality({i \in LiveEntries(db) : db.e[i].uuid = u})

\* the UUID rule of the data model
UuidsConsistent(db) ==
    \A u \in AllUuids(db) :
        /\ LiveObjectsOf(db, u) <= 1
        /\ Cardinality(TombstonesOf(db, u)) <= 1
        /\ ~(u \in LiveUuids(db) /\ u \in TombstoneUuids(db))

\* every object of the store hangs in the tree below the root
NothingDetached(db) ==
    /\ \A i \in DOMAIN db.g : GroupInTree(db, i)
    /\ \A i \in DOMAIN db.e : EntryInTree(db, i)

\* the invariants of the data model
WellFormed(db) == NothingDetached(db) /\ UuidsConsistent(db)

----------------------------------------------------------------------------
(* Merger(sourceDb, targetDb).merge() *)

Merge(src, tgt, maxMerges) ==
    /\ status = "run"
    /\ merges < maxMerges
    /\ src # tgt
    /\ \E r \in {merge(dbs[src], dbs[tgt])} :
           IF r.div
           THEN /\ status' = "diverged"
                /\ last' = [kind |-> "diverged", src |-> src, tgt |-> tgt,
                            layout |-> last.layout, trail |-> Append(last.trail, <<src, tgt>>)]
                /\ UNCHANGED <<dbs, nextUuid>>
           ELSE /\ dbs' = [dbs EXCEPT ![tgt] = r.t, ![src] = r.s]
                /\ nextUuid' = r.nu
                /\ last' = [kind |-> "merge", src |-> src, tgt |-> tgt,
                            layout |-> last.layout, trail |-> Append(last.trail, <<src, tgt>>),
                            before |-> dbs[tgt], source |-> dbs[src],
                            wellFormed |-> WellFormed(dbs[tgt]) /\ WellFormed(dbs[src]),
                            changes |-> r.ch, evaluated |-> r.ev, resolved |-> r.rs,
                            structural |-> r.structural, forced |-> m_mode,
                            ret |-> r.ret, marked |-> r.marked]
                /\ UNCHANGED status
    /\ merges' = merges + 1
    /\ UNCHANGED <<clock, edits, m_mode>>

Next ==
    \/ \E s \in Sides : Edit(s, TicksPerSecond, MaxEdits)
    \/ \E src, tgt \in Sides : Merge(src, tgt, MaxMerges)

Spec == Init /\ [][Next]_vars

\* fewer edits, and the databases merged into each other again and again
NextRepeat ==
    \/ \E s \in Sides : Edit(s, TicksPerSecond, MaxRepeatEdits)
    \/ \E src, tgt \in Sides : Merge(src, tgt, MaxRepeatMerges)

SpecRepeat == Init /\ [][NextRepeat]_vars

\* the clock steps of the entry edits: half a second, a second
EditSteps == {1, TicksPerSecond}

\* the test database and its clone, under each merge mode
InitEntry ==
    /\ \E mode \in Modes :
         dbs = [s \in Sides |-> TestDatabase(mode)]
    /\ last = NoMerge("clone")
    /\ clock = TicksPerSecond
    /\ edits = 0
    /\ merges = 0
    /\ m_mode = ModeDefault
    /\ nextUuid = FirstFreshUuid
    /\ status = "run"

\* more edits, of the entry only, also within one second, then a merge
NextEntry ==
    \/ \E s \in Sides : \E d \in EditSteps : EditEntry(s, d, MaxEntryEdits)
    \/ \E src, tgt \in Sides : Merge(src, tgt, MaxEntryMerges)

SpecEntry == InitEntry /\ [][NextEntry]_vars

\* Merger::setForcedMergeMode(mode)
SetForcedMergeMode(mode, maxMerges) ==
    /\ status = "run"
    /\ merges < maxMerges
    /\ m_mode # mode
    /\ m_mode' = mode
    /\ UNCHANGED <<dbs, clock, edits, merges, nextUuid, last, status>>

\* Merger::resetForcedMergeMode()
ResetForcedMergeMode(maxMerges) ==
    /\ status = "run"
    /\ merges < maxMerges
    /\ m_mode # ModeDefault
    /\ m_mode' = ModeDefault
    /\ UNCHANGED <<dbs, clock, edits, merges, nextUuid, last, status>>

\* the test database with a merge mode of its own on group1
ModedDatabase(rootMode, groupMode) ==
    [TestDatabase(rootMode) EXCEPT !.g[G1].mode = groupMode]

GroupModes == {Inherit, "KeepBoth"}

InitForced ==
    /\ \E rootMode \in Modes : \E groupMode \in GroupModes :
         dbs = [s \in Sides |-> ModedDatabase(rootMode, groupMode)]
    /\ last = NoMerge("clone")
    /\ clock = TicksPerSecond
    /\ edits = 0
    /\ merges = 0
    /\ m_mode = ModeDefault
    /\ nextUuid = FirstFreshUuid
    /\ status = "run"

\* edits and moves of the entry, a mode forced or released, then a merge
NextForced ==
    \/ \E s \in Sides : EditEntry(s, TicksPerSecond, MaxForcedEdits)
    \/ \E s \in Sides : MoveEntry(s, TicksPerSecond, MaxForcedEdits)
    \/ \E mode \in Modes : SetForcedMergeMode(mode, MaxForcedMerges)
    \/ ResetForcedMergeMode(MaxForcedMerges)
    \/ \E src, tgt \in Sides : Merge(src, tgt, MaxForcedMerges)

SpecForced == InitForced /\ [][NextForced]_vars

\* the writer makes a group: new Group(), setName, setUuid(Uuid::random()),
\* setParent
GroupCreate(db, uuid, pid, name, now) ==
    [db EXCEPT !.g = With(db.g, db.next,
                          [NewGroup(uuid, pid, now, Inherit) EXCEPT !.name = name]),
               !.next = @ + 1]

AddGroup(s, d, maxEdits) ==
    /\ CanEdit(maxEdits)
    /\ \E pid \in DOMAIN dbs[s].g :
          dbs' = [dbs EXCEPT ![s] = GroupCreate(dbs[s], nextUuid, pid, Group3Name, clock + d)]
    /\ nextUuid' = nextUuid + 1
    /\ clock' = clock + d
    /\ edits' = edits + 1
    /\ UNCHANGED <<merges, m_mode, last, status>>

\* the test database and its clone, as they are or after the two sides moved
\* the groups into each other; groups made and entries moved before the merge
CreateLayouts == {"clone", "crossed"}

InitCreate ==
    /\ \E mode \in Modes : \E layout \in CreateLayouts :
         /\ dbs = [s \in Sides |-> InitialDatabase(layout, mode, s)]
         /\ last = NoMerge(layout)
         /\ clock = IF layout = "crossed" THEN 3 * TicksPerSecond ELSE TicksPerSecond
    /\ edits = 0
    /\ merges = 0
    /\ m_mode = ModeDefault
    /\ nextUuid = FirstFreshUuid
    /\ status = "run"

NextCreate ==
    \/ \E s \in Sides : AddGroup(s, TicksPerSecond, MaxCreateEdits)
    \/ \E s \in Sides : MoveEntry(s, TicksPerSecond, MaxCreateEdits)
    \/ \E src, tgt \in Sides : Merge(src, tgt, MaxCreateMerges)

SpecCreate == InitCreate /\ [][NextCreate]_vars

\* the writer changes a group: setName, setNotes, setIcon, setExpiryTime
GroupUpdate(db, gid, v, icon, now) ==
    [db EXCEPT !.g[gid].name = v, !.g[gid].notes = v, !.g[gid].icon = icon,
               !.g[gid].expiry = v, !.g[gid].mod = now]

\* the icons a writer can give a group: the built-in ones, and the custom
\* icons of the database
GroupIcons(db) ==
    {BuiltinIcon(0), BuiltinIcon(DefaultIconNumber)} \cup {CustomIcon(u) : u \in DOMAIN db.icons}

UpdateGroup(s, d, maxEdits) ==
    /\ CanEdit(maxEdits)
    /\ \E gid \in (DOMAIN dbs[s].g) \ {RootId} : \E icon \in GroupIcons(dbs[s]) :
          EditDone(s, GroupUpdate(dbs[s], gid, clock + d, icon, clock + d), d)

\* the test database and its clone under each merge mode; groups changed
\* and modes forced before the merge
InitGroup ==
    /\ \E mode \in Modes :
         dbs = [s \in Sides |-> TestDatabase(mode)]
    /\ last = NoMerge("clone")
    /\ clock = TicksPerSecond
    /\ edits = 0
    /\ merges = 0
    /\ m_mode = ModeDefault
    /\ nextUuid = FirstFreshUuid
    /\ status = "run"

NextGroup ==
    \/ \E s \in Sides : UpdateGroup(s, TicksPerSecond, MaxGroupEdits)
    \/ \E mode \in Modes : SetForcedMergeMode(mode, MaxGroupMerges)
    \/ ResetForcedMergeMode(MaxGroupMerges)
    \/ \E src, tgt \in Sides : Merge(src, tgt, MaxGroupMerges)

SpecGroup == InitGroup /\ [][NextGroup]_vars

\* Metadata::addCustomIcon(uuid, icon)
addCustomIcon(db, uuid, icon) == [db EXCEPT !.icons = With(@, uuid, icon)]

\* the images the two sides put into their tables
ImageOf(s) == IF s = "A" THEN 2 ELSE 3

\* the writer adds a custom icon the database does not have
AddCustomIcon(s, d, maxEdits) ==
    /\ CanEdit(maxEdits)
    /\ \E uuid \in {Icon2, Icon3} \ DOMAIN dbs[s].icons :
          EditDone(s, addCustomIcon(dbs[s], uuid, ImageOf(s)), d)

\* the test database merged with its clone or with a new database, under
\* each merge mode; custom icons added before the merges
IconLayouts == {"clone", "empty"}

InitIcons ==
    /\ \E mode \in Modes : \E layout \in IconLayouts :
         /\ dbs = [s \in Sides |-> InitialDatabase(layout, mode, s)]
         /\ last = NoMerge(layout)
    /\ clock = TicksPerSecond
    /\ edits = 0
    /\ merges = 0
    /\ m_mode = ModeDefault
    /\ nextUuid = FirstFreshUuid
    /\ status = "run"

NextIcons ==
    \/ \E s \in Sides : AddCustomIcon(s, TicksPerSecond, MaxIconEdits)
    \/ \E src, tgt \in Sides : Merge(src, tgt, MaxIconMerges)

SpecIcons == InitIcons /\ [][NextIcons]_vars

\* a null Database* or Group* handed to a Merger constructor
NullDb == "null"

\* the outcomes of merge() on a merger whose constructor returned early:
\* mergeGroup(m_context) reads context.m_sourceGroup->entries() through a
\* pointer that was never set, which is undefined behaviour
UnsetContextOutcomes == {"crashed", "returned"}

\* Merger(sourceDb, targetDb) with a null argument, then merge(): the
\* constructor returns before m_context is populated (Q_ASSERT compiled
\* out), and merge() runs its three passes on that context all the same
MergeNull(src, tgt, maxMerges) ==
    /\ status = "run"
    /\ merges < maxMerges
    /\ src = NullDb \/ tgt = NullDb
    /\ \E outcome \in UnsetContextOutcomes :
          /\ status' = IF outcome = "crashed" THEN "crashed" ELSE status
          /\ last' = [kind |-> "null", src |-> src, tgt |-> tgt,
                      layout |-> last.layout, trail |-> last.trail,
                      dbs |-> dbs, ret |-> FALSE]
    /\ merges' = merges + 1
    /\ UNCHANGED <<dbs, clock, edits, m_mode, nextUuid>>

\* the writer edits, then mergers are constructed on the two databases or
\* on a null pointer and run
NextNull ==
    \/ \E s \in Sides : Edit(s, TicksPerSecond, MaxNullEdits)
    \/ \E src, tgt \in Sides : Merge(src, tgt, MaxNullMerges)
    \/ \E src, tgt \in Sides \cup {NullDb} : MergeNull(src, tgt, MaxNullMerges)

SpecNull == Init /\ [][NextNull]_vars

\* the destination of TestMerge::testUpdateGroupLocation: the test database
\* with a group3 that the side made under group1
Group3Database(mode) ==
    LET db == TestDatabase(mode)
    IN  [db EXCEPT !.g = With(db.g, G3, [NewGroup(G3, G1, 2 * TicksPerSecond, Inherit)
                                            EXCEPT !.name = Group3Name])]

\* side A holds the test database, side B its clone with group3 under group1
InitNested ==
    /\ \E mode \in Modes :
         dbs = [s \in Sides |-> IF s = "A" THEN TestDatabase(mode) ELSE Group3Database(mode)]
    /\ last = NoMerge("group3")
    /\ clock = 2 * TicksPerSecond
    /\ edits = 0
    /\ merges = 0
    /\ m_mode = ModeDefault
    /\ nextUuid = FirstFreshUuid
    /\ status = "run"

\* groups moved and removed on either side, then a merge
NextNested ==
    \/ \E s \in Sides : MoveGroup(s, TicksPerSecond, MaxNestedEdits)
    \/ \E s \in Sides : RemoveGroup(s, TicksPerSecond, MaxNestedEdits)
    \/ \E src, tgt \in Sides : Merge(src, tgt, MaxNestedMerges)

SpecNested == InitNested /\ [][NextNested]_vars

\* the test database and its clone under each merge mode; every kind of
\* edit, also within one second, then a merge
NextPrecision ==
    \/ \E s \in Sides : \E d \in EditSteps : Edit(s, d, MaxPrecisionEdits)
    \/ \E src, tgt \in Sides : Merge(src, tgt, MaxPrecisionMerges)

SpecPrecision == InitEntry /\ [][NextPrecision]_vars

\* Merger(sourceGroup, targetGroup).merge() on a group of the source and a
\* group of the target
MergeGroups(src, tgt, maxMerges) ==
    /\ status = "run"
    /\ merges < maxMerges
    /\ src # tgt
    /\ \E sourceGroup \in LiveGroups(dbs[src]) \cup {RootId} :
       \E targetGroup \in LiveGroups(dbs[tgt]) \cup {RootId} :
       \E r \in {mergeGroupPair(dbs[src], dbs[tgt], sourceGroup, targetGroup)} :
           IF r.div
           THEN /\ status' = "diverged"
                /\ last' = [kind |-> "diverged", src |-> src, tgt |-> tgt,
                            layout |-> last.layout, trail |-> Append(last.trail, <<src, tgt>>)]
                /\ UNCHANGED <<dbs, nextUuid>>
           ELSE /\ dbs' = [dbs EXCEPT ![tgt] = r.t, ![src] = r.s]
                /\ nextUuid' = r.nu
                /\ last' = [kind |-> "merge", src |-> src, tgt |-> tgt,
                            layout |-> last.layout, trail |-> Append(last.trail, <<src, tgt>>),
                            before |-> dbs[tgt], source |-> dbs[src],
                            wellFormed |-> WellFormed(dbs[tgt]) /\ WellFormed(dbs[src]),
                            changes |-> r.ch, evaluated |-> r.ev, resolved |-> r.rs,
                            structural |-> r.structural, forced |-> m_mode,
                            ret |-> r.ret, marked |-> r.marked,
                            sourceGroup |-> sourceGroup, targetGroup |-> targetGroup]
                /\ UNCHANGED status
    /\ merges' = merges + 1
    /\ UNCHANGED <<clock, edits, m_mode>>

\* the source of TestMerge::testMoveEntry: the test database after the side
\* moved entry1 into group2
MovedEntryDatabase(mode) ==
    EntrySetGroup(TestDatabase(mode), E1, G2, 2 * TicksPerSecond, TRUE)

\* side A holds the database with the moved entry, side B the test database
InitSubtree ==
    /\ \E mode \in Modes :
         dbs = [s \in Sides |-> IF s = "A" THEN MovedEntryDatabase(mode) ELSE TestDatabase(mode)]
    /\ last = NoMerge("moved")
    /\ clock = 2 * TicksPerSecond
    /\ edits = 0
    /\ merges = 0
    /\ m_mode = ModeDefault
    /\ nextUuid = FirstFreshUuid
    /\ status = "run"

\* edits on either side, then a merger on a pair of groups
NextSubtree ==
    \/ \E s \in Sides : Edit(s, TicksPerSecond, MaxSubtreeEdits)
    \/ \E src, tgt \in Sides : MergeGroups(src, tgt, MaxSubtreeMerges)

SpecSubtree == InitSubtree /\ [][NextSubtree]_vars

----------------------------------------------------------------------------
(* Vocabulary of the properties *)

AfterMerge == last.kind = "merge"

Target == dbs[last.tgt]
Before == last.before
Source == last.source
\* the target between the structural pass and the deletion pass, its
\* objects under the identities they had before the merge
Structural == last.structural
Resolutions == last.resolved
\* the mode forced on the merger when it merged
Forced == last.forced
EffectiveMode == Target.g[RootId].mode
Trail == last.trail
Repeated == Len(Trail) >= 2 /\ Trail[Len(Trail)] = Trail[Len(Trail) - 1]
Reverse(p) == <<p[2], p[1]>>
ThereAndBack == Len(Trail) >= 3 /\ Trail[Len(Trail) - 1] = Reverse(Trail[Len(Trail) - 2])
\* both databases were well-formed when the merge began
BothWellFormed == last.wellFormed

EntryOf(db, u) == db.e[CHOOSE i \in LiveEntries(db) : db.e[i].uuid = u]
GroupOf(db, u) == db.g[CHOOSE i \in LiveGroups(db) : db.g[i].uuid = u]
TombstoneOf(db, u) == db.del[CHOOSE k \in TombstonesOf(db, u) : TRUE]
ParentUuid(db, rec) == db.g[rec.parent].uuid

----------------------------------------------------------------------------
\* the state of a database as a merge can leave it: the objects with their
\* parents, contents, histories and times, the set of tombstones, the icons
SameState(a, b) ==
    /\ a.g = b.g
    /\ a.e = b.e
    /\ Range(a.del) = Range(b.del)
    /\ a.icons = b.icons

Recorded(what, u) == \E k \in 1..Len(last.changes) : last.changes[k] = Change(what, u)

----------------------------------------------------------------------------
(* The properties *)

(* C1: after a merge of two well-formed databases every UUID of the target *)
(* denotes at most one live object and at most one tombstone, never both   *)
C1_UuidsConsistent ==
    (AfterMerge /\ BothWellFormed) => UuidsConsistent(Target)

\* a merge met an entry that one side had moved and that the other side had
\* deleted
C1_Witness ==
    /\ AfterMerge /\ BothWellFormed
    /\ \E u \in LiveEntryUuids(Source) :
          /\ u \in TombstoneUuids(Before)
          /\ ParentUuid(Source, EntryOf(Source, u)) # G1
          /\ u \in TombstoneUuids(Target)

(* C2: under KeepNewer, KeepExisting and Synchronize a second merge of the *)
(* same source into the same target leaves the target as the first merge   *)
(* left it: same live objects, parents, contents, histories and tombstones *)
C2_SecondMergeNoOp ==
    (AfterMerge /\ Repeated /\ EffectiveMode # "KeepBoth") => SameState(Target, Before)

(* C3, as claimed: merge() returns true exactly when the state of the      *)
(* target after the three passes differs from its state before, and marks  *)
(* the target modified exactly when it returns true                        *)
C3_ReturnsTrueIffChanged ==
    AfterMerge => /\ last.ret <=> ~SameState(Target, Before)
                  /\ last.marked <=> last.ret

(* C3, amended: merge() returns true exactly when a pass recorded a        *)
(* change, and marks the target modified exactly then; a merge that leaves *)
(* the target different from what it was returns true                      *)
C3_ReturnsTrueIffRecorded ==
    AfterMerge => /\ last.ret <=> (last.changes # << >>)
                  /\ last.marked <=> last.ret
                  /\ (Target # Before) => last.ret

\* a merge that created an entry, deleted it again and returned true with the
\* target as it was
C3_Witness ==
    /\ AfterMerge
    /\ last.ret /\ last.marked
    /\ SameState(Target, Before)
    /\ \E u \in LiveEntryUuids(Source) : Recorded("Creating missing", u) /\ Recorded("Deleting child", u)

(* C4: merge() leaves the source database as it was *)
C4_SourceUnchanged ==
    AfterMerge => dbs[last.src] = Source

\* a merge that cloned an entry of the source into the target
C4_Witness ==
    /\ AfterMerge
    /\ \E u \in LiveEntryUuids(Source) :
          /\ Recorded("Creating missing", u)
          /\ u \in LiveEntryUuids(Target)
          /\ u \in LiveEntryUuids(dbs[last.src])

(* C5: after a merge of two well-formed databases every group of the       *)
(* target has a parent chain that ends at the root: no relocation makes a  *)
(* parent cycle or detaches a subtree                                      *)
C5_ParentChains ==
    (AfterMerge /\ BothWellFormed) => \A i \in DOMAIN Target.g : GroupInTree(Target, i)

(* C6: for two databases of common ancestry and a mode other than KeepBoth,*)
(* after A into B and B into A a third merge in either direction does not  *)
(* change its target                                                       *)
C6_ThirdMergeNoOp ==
    (AfterMerge /\ ThereAndBack /\ last.layout # "empty" /\ EffectiveMode # "KeepBoth")
        => SameState(Target, Before)

StructuralClone(s, t) ==
    /\ \A i \in LiveGroups(s) :
          /\ s.g[i].uuid \in LiveGroupUuids(t)
          /\ ParentUuid(t, GroupOf(t, s.g[i].uuid)) = ParentUuid(s, s.g[i])
    /\ \A i \in LiveEntries(s) :
          /\ s.e[i].uuid \in LiveEntryUuids(t)
          /\ ParentUuid(t, EntryOf(t, s.e[i].uuid)) = ParentUuid(s, s.e[i])
          /\ EntryOf(t, s.e[i].uuid).hist = s.e[i].hist

IsEmptyDatabase(db) == LiveGroups(db) = {} /\ DOMAIN db.e = {} /\ db.del = << >>

(* C7: merging into an empty target yields a structural clone of the       *)
(* source: same UUIDs, same parents, all history items                     *)
C7_IntoEmptyIsClone ==
    (AfterMerge /\ IsEmptyDatabase(Before)) => StructuralClone(Source, Target)

\* a merge into the empty database of a source with a nested group and an
\* entry that was edited
C7_Witness ==
    /\ AfterMerge /\ IsEmptyDatabase(Before)
    /\ \E i \in LiveGroups(Source) : Source.g[i].parent # RootId
    /\ \E i \in LiveEntries(Source) : Len(Source.e[i].hist) >= 2
    /\ LiveEntryUuids(Target) = LiveEntryUuids(Source)

\* side x holds a tombstone for entry u and side y holds the entry, modified
\* after the deletion
Reincarnates(x, y, u) ==
    /\ u \in TombstoneUuids(x)
    /\ u \in LiveEntryUuids(y)
    /\ EntryOf(y, u).mod > TombstoneOf(x, u).deletionTime

ReincarnationCase(u) == Reincarnates(Source, Before, u) \/ Reincarnates(Before, Source, u)

Edited(u) == IF u \in LiveEntryUuids(Before) THEN EntryOf(Before, u) ELSE EntryOf(Source, u)

(* C8: an entry tombstoned on one side and modified on the other side      *)
(* after the deletion is live in the target after the merge, with the      *)
(* later edit, and the target holds no tombstone for it                    *)
C8_Reincarnation ==
    (AfterMerge /\ BothWellFormed) =>
        \A u \in AllUuids(Source) \cup AllUuids(Before) :
            ReincarnationCase(u) =>
                /\ u \in LiveEntryUuids(Target)
                /\ EntryOf(Target, u).data.v = Edited(u).data.v
                /\ Serialized(EntryOf(Target, u).mod) >= Serialized(Edited(u).mod)
                /\ u \notin TombstoneUuids(Target)

(* C9: a group that has a live descendant when the deletion pass judges it *)
(* is live after the merge and has no tombstone in the target              *)
C9_GroupWithContentKept ==
    AfterMerge =>
        \A k \in 1..Len(last.evaluated) :
            (last.evaluated[k].kind = "group" /\ last.evaluated[k].content)
                => /\ last.evaluated[k].uuid \in LiveGroupUuids(Target)
                   /\ last.evaluated[k].uuid \notin TombstoneUuids(Target)

\* the source deleted a group that the target did not touch afterwards, and
\* the deletion pass found content in it and kept it
C9_Witness ==
    /\ AfterMerge
    /\ \E u \in TombstoneUuids(Source) \cap LiveGroupUuids(Before) :
          /\ TombstoneOf(Source, u).deletionTime >= GroupOf(Before, u).mod
          /\ \E k \in 1..Len(last.evaluated) : last.evaluated[k] = Evaluated("group", u, TRUE)
          /\ u \in LiveGroupUuids(Target)

\* side x holds a tombstone for entry u that is not earlier than the last
\* modification of the entry that side y holds
DeletionApplies(x, y, u) ==
    /\ u \in TombstoneUuids(x)
    /\ u \in LiveEntryUuids(y)
    /\ TombstoneOf(x, u).deletionTime >= EntryOf(y, u).mod

(* C10: an entry with a tombstone on the other side that is not earlier    *)
(* than its last modification is gone from the target after the merge and  *)
(* tombstoned there; the tombstoned UUIDs of both sides are all tombstoned *)
(* in the target, but for those whose object the merge kept alive          *)
C10_DeletionPropagates ==
    (AfterMerge /\ BothWellFormed) =>
        /\ \A u \in AllUuids(Source) \cup AllUuids(Before) :
              (DeletionApplies(Source, Before, u) \/ DeletionApplies(Before, Source, u))
                  => u \notin LiveUuids(Target) /\ u \in TombstoneUuids(Target)
        /\ \A u \in TombstoneUuids(Source) \cup TombstoneUuids(Before) :
              u \in TombstoneUuids(Target) \/ u \in LiveUuids(Target)

\* the source deleted one entry, the target holds a tombstone of its own, and
\* the merge removed the entry and kept both tombstones
C10_Witness ==
    /\ AfterMerge /\ BothWellFormed
    /\ \E u \in LiveEntryUuids(Before) :
          /\ DeletionApplies(Source, Before, u)
          /\ Recorded("Deleting child", u)
          /\ u \in TombstoneUuids(Target)
          /\ \E w \in TombstoneUuids(Before) : w # u /\ w \in TombstoneUuids(Target)

\* the deletion times of the tombstones that either side holds for UUID u
DeletionTimes(u) ==
    {Before.del[k].deletionTime : k \in TombstonesOf(Before, u)}
        \cup {Source.del[k].deletionTime : k \in TombstonesOf(Source, u)}

\* the deletion time of u in the merged tombstone set: the earliest one
MergedDeletionTime(u) == CHOOSE t \in DeletionTimes(u) : \A x \in DeletionTimes(u) : t <= x

\* the group the deletion pass judges: the target's own group, or the one the
\* structural pass created from the source
JudgedGroup(u) == IF u \in LiveGroupUuids(Before) THEN GroupOf(Before, u) ELSE GroupOf(Source, u)

GroupJudged(u, content) ==
    \E k \in 1..Len(last.evaluated) : last.evaluated[k] = Evaluated("group", u, content)

(* C11: a live target group with a tombstone in the merged set is kept,    *)
(* and its tombstone dropped, if it was modified after the deletion time;  *)
(* otherwise, if it has no content when it is judged, it is deleted and    *)
(* its tombstone retained, whichever side deleted and whichever edited     *)
C11_GroupJudgement ==
    (AfterMerge /\ BothWellFormed) =>
        \A k \in 1..Len(last.evaluated) :
            LET u == last.evaluated[k].uuid
            IN  last.evaluated[k].kind = "group" =>
                    IF JudgedGroup(u).mod > MergedDeletionTime(u)
                    THEN u \in LiveGroupUuids(Target) /\ u \notin TombstoneUuids(Target)
                    ELSE ~last.evaluated[k].content =>
                             /\ u \notin LiveGroupUuids(Target)
                             /\ u \in TombstoneUuids(Target)

\* the target had deleted a group that the source renamed later, and the
\* merge brought the group back and dropped the tombstone
C11_Witness ==
    /\ AfterMerge /\ BothWellFormed
    /\ \E u \in TombstoneUuids(Before) \cap LiveGroupUuids(Source) :
          /\ GroupOf(Source, u).mod > TombstoneOf(Before, u).deletionTime
          /\ GroupJudged(u, FALSE)
          /\ u \in LiveGroupUuids(Target)
          /\ u \notin TombstoneUuids(Target)

\* Entry history of the data model: strictly ascending by the second of the
\* last modification, at most historyMaxItems items
HistoryOk(h) ==
    /\ \A i \in 1..(Len(h) - 1) : Serialized(h[i].mod) < Serialized(h[i + 1].mod)
    /\ Len(h) <= HistoryMaxItems

HistoriesOk(db) == \A i \in DOMAIN db.e : HistoryOk(db.e[i].hist)

(* C12: after a merge of two databases whose histories are in order, the   *)
(* history of every entry of the target is strictly ascending by last      *)
(* modification at second precision, without two items of the same second, *)
(* and no longer than historyMaxItems                                      *)
C12_HistoriesInOrder ==
    (AfterMerge /\ HistoriesOk(Before) /\ HistoriesOk(Source)) => HistoriesOk(Target)

\* a Synchronize merge that folded the source's revision into the history of
\* a target entry
C12_Witness ==
    /\ AfterMerge
    /\ EffectiveMode = "Synchronize"
    /\ \E u \in LiveEntryUuids(Target) \cap LiveEntryUuids(Before) \cap LiveEntryUuids(Source) :
          /\ Recorded("Synchronizing from older source", u)
          /\ EntryOf(Target, u).hist # EntryOf(Before, u).hist
          /\ EntryOf(Target, u).hist # EntryOf(Source, u).hist
          /\ Len(EntryOf(Target, u).hist) = HistoryMaxItems


----------------------------------------------------------------------------
\* the entries of the store, in the tree or not, that carry the UUID
EntriesWithUuid(db, u) == {i \in DOMAIN db.e : db.e[i].uuid = u}

TimeTarget(u) == Serialized(EntryOf(Before, u).mod)
TimeSource(u) == Serialized(EntryOf(Source, u).mod)

\* attributes, history and TimeInfo of an entry
Revision(en) == [data |-> en.data, hist |-> en.hist, mod |-> en.mod, loc |-> en.loc]

\* the source's copy replaced the target's entry, in the group named
ReplacedBySource(u, group) ==
    /\ Cardinality(EntriesWithUuid(Target, u)) = 1
    /\ u \in LiveEntryUuids(Target)
    /\ ParentUuid(Target, EntryOf(Target, u)) = group
    /\ Revision(EntryOf(Target, u)) = Revision(EntryOf(Source, u))
    /\ u \notin TombstoneUuids(Target)

\* what the loop over the source entries does before it resolves the
\* conflict: the entry follows the source when the source moved it later
Relocated(u) ==
    /\ EntryOf(Before, u).loc < EntryOf(Source, u).loc
    /\ ParentUuid(Before, EntryOf(Before, u)) # ParentUuid(Source, EntryOf(Source, u))

CurrentGroup(u) ==
    IF Relocated(u) THEN ParentUuid(Source, EntryOf(Source, u))
                    ELSE ParentUuid(Before, EntryOf(Before, u))

(* C13: under KeepNewer, an entry whose source copy is the later one at
   second precision is, after the merge, the only entry of the target with
   its UUID, sits in the group the target's entry was in when the conflict
   was resolved (its group before the merge, or the source's group when the
   source moved it later), has the attributes, history and TimeInfo of the
   source's copy, and has no tombstone. *)
C13_NewerSourceReplaces ==
    (AfterMerge /\ BothWellFormed /\ EffectiveMode = "KeepNewer")
    => \A u \in LiveEntryUuids(Before) \cap LiveEntryUuids(Source) :
          TimeTarget(u) < TimeSource(u) => ReplacedBySource(u, CurrentGroup(u))


\* the target's entry is still in the store as it was before the merge, no
\* entry of the tree with its UUID differs from it, and it has no tombstone
LeftAsItWas(u) ==
    /\ \E i \in EntriesWithUuid(Target, u) :
          Revision(Target.e[i]) = Revision(EntryOf(Before, u))
    /\ \A i \in LiveEntries(Target) :
          Target.e[i].uuid = u => Revision(Target.e[i]) = Revision(EntryOf(Before, u))
    /\ u \notin TombstoneUuids(Target)

(* C14: under KeepNewer, an entry whose target copy is the later one at
   second precision, or as late as the source's, keeps its attributes, its
   history and its TimeInfo through the merge, and gets no tombstone. *)
C14_NewerTargetStays ==
    (AfterMerge /\ BothWellFormed /\ EffectiveMode = "KeepNewer")
    => \A u \in LiveEntryUuids(Before) \cap LiveEntryUuids(Source) :
          TimeTarget(u) >= TimeSource(u) => LeftAsItWas(u)

\* a merge under KeepNewer met an entry the target had edited later than
\* the source, and the entry is in the target's tree as the target left it
C14_Witness ==
    /\ AfterMerge /\ BothWellFormed /\ EffectiveMode = "KeepNewer"
    /\ \E u \in LiveEntryUuids(Before) \cap LiveEntryUuids(Source) :
          /\ TimeTarget(u) > TimeSource(u)
          /\ Revision(EntryOf(Before, u)) # Revision(EntryOf(Source, u))
          /\ u \in LiveEntryUuids(Target)
          /\ Revision(EntryOf(Target, u)) = Revision(EntryOf(Before, u))


(* C15: under KeepExisting, every entry the target held before the merge
   is, after the structural pass, still in the target with the attributes,
   the history and the TimeInfo it had, whichever of the two copies is the
   later one; its group may have changed. *)
C15_ExistingEntriesStay ==
    (AfterMerge /\ BothWellFormed /\ EffectiveMode = "KeepExisting")
    => \A i \in DOMAIN Before.e :
          /\ i \in DOMAIN Structural.e
          /\ Revision(Structural.e[i]) = Revision(Before.e[i])

\* a merge under KeepExisting met an entry the source had edited later, and
\* the structural pass and the whole merge left the target's copy as it was
C15_Witness ==
    /\ AfterMerge /\ BothWellFormed /\ EffectiveMode = "KeepExisting"
    /\ \E u \in LiveEntryUuids(Before) \cap LiveEntryUuids(Source) :
          /\ TimeTarget(u) < TimeSource(u)
          /\ \E i \in EntriesWithUuid(Before, u) :
                /\ i \in DOMAIN Structural.e
                /\ Revision(Structural.e[i]) = Revision(Before.e[i])
          /\ u \in LiveEntryUuids(Target)
          /\ Revision(EntryOf(Target, u)) = Revision(EntryOf(Before, u))


\* the UUIDs a database knows, live or tombstoned, in the tree or not
KnownUuids(db) ==
    {db.g[i].uuid : i \in DOMAIN db.g} \cup {db.e[i].uuid : i \in DOMAIN db.e}
    \cup TombstoneUuids(db)

\* the entries of the target whose UUID neither side knew before the merge
FreshEntries == {i \in DOMAIN Target.e :
                    Target.e[i].uuid \notin KnownUuids(Before) \cup KnownUuids(Source)}

\* a copy of the source's entry with its history, in the tree under the
\* target's counterpart of the source entry's group; markOlderEntry may have
\* written its attribute and stamped it
IsBackupOf(i, u) ==
    /\ i \in LiveEntries(Target)
    /\ Target.e[i].data.v = EntryOf(Source, u).data.v
    /\ Target.e[i].hist = EntryOf(Source, u).hist
    /\ Target.e[i].loc = EntryOf(Source, u).loc
    /\ ParentUuid(Target, Target.e[i]) = ParentUuid(Source, EntryOf(Source, u))

Merged(en) == en.data.merged

(* C16: under KeepBoth, an entry whose two copies differ in
   last_modification at second precision gets exactly one backup in the
   target: an entry with a fresh UUID in the target's counterpart of the
   source's group that is a copy of the source's entry with its history.
   The target's entry keeps its UUID.  Of the target's entry and the backup,
   the one that stands for the older of the two copies carries "merged" and
   the other does not.  When the two times are equal no entry is added. *)
C16_KeepBothAddsBackup ==
    (AfterMerge /\ BothWellFormed /\ EffectiveMode = "KeepBoth")
    => \A u \in LiveEntryUuids(Before) \cap LiveEntryUuids(Source) :
          IF TimeTarget(u) = TimeSource(u)
          THEN \A i \in FreshEntries : ~IsBackupOf(i, u)
          ELSE /\ Cardinality({i \in FreshEntries : IsBackupOf(i, u)}) = 1
               /\ Cardinality(EntriesWithUuid(Target, u)) = 1
               /\ u \in LiveEntryUuids(Target)
               /\ \A i \in FreshEntries :
                     IsBackupOf(i, u)
                     => IF TimeTarget(u) < TimeSource(u)
                        THEN Merged(EntryOf(Target, u)) /\ ~Merged(Target.e[i])
                        ELSE Merged(Target.e[i]) /\ ~Merged(EntryOf(Target, u))


\* the second-precision last_modification of the items of a history
Keys(h) == [i \in 1..Len(h) |-> Serialized(h[i].mod)]

\* the later and the earlier of the two copies of an entry in conflict
LaterCopy(u) ==
    IF TimeTarget(u) > TimeSource(u) THEN EntryOf(Before, u) ELSE EntryOf(Source, u)
OlderCopy(u) ==
    IF TimeTarget(u) > TimeSource(u) THEN EntryOf(Source, u) ELSE EntryOf(Before, u)

\* the union of the two histories and the older copy, one item a second,
\* ascending, cut down to the newest HistoryMaxItems
SynchronizedKeys(u) ==
    truncateHistory(SortedSeq(Range(Keys(EntryOf(Before, u).hist))
                              \cup Range(Keys(EntryOf(Source, u).hist))
                              \cup {Serialized(OlderCopy(u).mod)}))

(* C17: under Synchronize, an entry whose two copies differ in
   last_modification at second precision is, after the merge, the later of
   the two copies, and its history holds, in ascending order, one item for
   each second-precision last_modification of either history and of the
   older copy, cut down to history_max_items.  Both histories are in
   order before the merge, one item a second. *)
C17_SynchronizeFoldsHistories ==
    (AfterMerge /\ BothWellFormed /\ EffectiveMode = "Synchronize"
     /\ HistoriesOk(Before) /\ HistoriesOk(Source))
    => \A u \in LiveEntryUuids(Before) \cap LiveEntryUuids(Source) :
          TimeTarget(u) # TimeSource(u)
          => /\ u \in LiveEntryUuids(Target)
             /\ EntryOf(Target, u).data = LaterCopy(u).data
             /\ EntryOf(Target, u).mod = LaterCopy(u).mod
             /\ Keys(EntryOf(Target, u).hist) = SynchronizedKeys(u)


\* what resolveEntryConflict can record for an entry under Synchronize
RecordedSynchronizing(u) ==
    \/ Recorded("Synchronizing from newer source", u)
    \/ Recorded("Synchronizing from older source", u)

(* C18: under Synchronize, an entry whose two copies have the same
   last_modification at second precision comes out of the merge as the
   target held it, history included, and the merge records no change for
   it.  Both histories are in order before the merge, one item a second. *)
C18_SynchronizeEqualTimesNoOp ==
    (AfterMerge /\ BothWellFormed /\ EffectiveMode = "Synchronize"
     /\ HistoriesOk(Before) /\ HistoriesOk(Source))
    => \A u \in LiveEntryUuids(Before) \cap LiveEntryUuids(Source) :
          TimeTarget(u) = TimeSource(u)
          => /\ u \in LiveEntryUuids(Target)
             /\ Revision(EntryOf(Target, u)) = Revision(EntryOf(Before, u))
             /\ ~RecordedSynchronizing(u)


(* C19: a UUID tombstoned on both sides before the merge has, in every
   tombstone the target holds for it after the merge, the earlier of the two
   deletion times, whether the target holds a live object of that UUID
   during the merge or not. *)
C19_EarlierDeletionTimeKept ==
    (AfterMerge /\ BothWellFormed)
    => \A u \in TombstoneUuids(Before) \cap TombstoneUuids(Source) :
          \A k \in TombstonesOf(Target, u) :
             Target.del[k].deletionTime = MergedDeletionTime(u)


(* C20: after a merge the UUIDs tombstoned in the target are exactly those
   tombstoned in the source or in the target before the merge that are not
   live in the target after it: a tombstone without a live object is
   retained, and no tombstone is minted for a UUID that had none. *)
C20_TombstonesOwnedByMerge ==
    AfterMerge
    => TombstoneUuids(Target)
       = (TombstoneUuids(Before) \cup TombstoneUuids(Source)) \ LiveUuids(Target)

\* a merge that replaced an entry by the source's copy and erased a
\* tombstoned group, with a tombstone of the source retained
C20_Witness ==
    /\ AfterMerge
    /\ \E u \in LiveEntryUuids(Before) : Recorded("Overwriting", u) /\ u \notin TombstoneUuids(Target)
    /\ \E u \in TombstoneUuids(Source) \ TombstoneUuids(Before) :
          /\ u \in LiveUuids(Before)
          /\ Recorded("Deleting child", u)
          /\ u \in TombstoneUuids(Target)


----------------------------------------------------------------------------
(* C21: every entry conflict of a merge is resolved by the forced mode when
   one is set on the merger, whatever the merge modes of the target groups
   are; when none is set, or after it was reset, it is resolved by the merge
   mode of the target group the traversal is in, which an inheriting group
   takes from its parent in the target's tree.  The tree is read after the
   structural pass, of merges that leave every group in it. *)
C21_EffectiveMode ==
    (AfterMerge /\ NothingDetached(Structural))
    => \A k \in 1..Len(Resolutions) :
          Resolutions[k].mode = IF Forced # ModeDefault THEN Forced
                                ELSE mergeMode(Structural, Resolutions[k].group)

\* a merge with a forced mode resolved a conflict in a target group whose own
\* mode is another one
C21_Witness ==
    /\ AfterMerge
    /\ Forced # ModeDefault
    /\ \E k \in 1..Len(Resolutions) :
          /\ Before.g[Resolutions[k].group].mode \notin {Inherit, Forced}
          /\ Resolutions[k].mode = Forced
          /\ Recorded("Overwriting", Resolutions[k].uuid)

----------------------------------------------------------------------------
\* the entries both sides hold
SharedEntryUuids == LiveEntryUuids(Before) \cap LiveEntryUuids(Source)

\* the target's entry went where the source has it, and is the only entry of
\* the target with its UUID
FollowsSource(u) ==
    /\ Cardinality(EntriesWithUuid(Target, u)) = 1
    /\ u \in LiveEntryUuids(Target)
    /\ ParentUuid(Target, EntryOf(Target, u)) = ParentUuid(Source, EntryOf(Source, u))

\* the merge neither created an entry of the source, nor made a backup, nor
\* deleted an entry
NoEntryAddedOrDeleted ==
    /\ LiveEntryUuids(Source) \subseteq LiveEntryUuids(Before)
    /\ FreshEntries = {}
    /\ TombstoneUuids(Source) \cup TombstoneUuids(Before) = {}

(* C22: an entry both databases hold, which the source moved later than the
   target did and which the target does not have in the counterpart of the
   source entry's group, is after the merge the one entry with its UUID in the
   target and sits in that counterpart; a merge that creates no entry, makes
   no backup and deletes nothing leaves the number of entries as it was; and
   the attributes of a target copy modified later than the source's are the
   ones the target had. *)
C22_RelocatedNotDuplicated ==
    (AfterMerge /\ BothWellFormed)
    => \A u \in SharedEntryUuids :
          Relocated(u)
          => /\ FollowsSource(u)
             /\ NoEntryAddedOrDeleted
                => Cardinality(LiveEntries(Target)) = Cardinality(LiveEntries(Before))
             /\ TimeTarget(u) > TimeSource(u)
                => EntryOf(Target, u).data = EntryOf(Before, u).data

----------------------------------------------------------------------------
(* C23: an entry of the target that the structural pass relocated has,
   after the merge, the location_changed of the source's entry, under every
   merge mode and whichever copy was modified later. *)
C23_RelocationCopiesLocationChanged ==
    (AfterMerge /\ BothWellFormed)
    => \A u \in SharedEntryUuids :
          (Relocated(u) /\ Recorded("Relocating", u))
          => \A i \in EntriesWithUuid(Target, u) :
                Target.e[i].loc = EntryOf(Source, u).loc

----------------------------------------------------------------------------
\* the mode every entry conflict of the merge is resolved under: the forced
\* one, or the one all groups of the target have
UnderMode(mode) ==
    IF Forced # ModeDefault THEN Forced = mode
    ELSE \A g \in DOMAIN Before.g : mergeMode(Before, g) = mode

\* the target moved the entry later than the source did
MovedByTarget(u) ==
    /\ EntryOf(Source, u).loc < EntryOf(Before, u).loc
    /\ ParentUuid(Before, EntryOf(Before, u)) # ParentUuid(Source, EntryOf(Source, u))

(* C24: under KeepNewer, an entry the target moved later than the source
   did and the source modified later than the target did is, after the
   merge, the only entry of the target with its UUID, sits in the group the
   target moved it to, and has the attributes, the history and the TimeInfo
   of the source's copy: its location_changed is the source's earlier one. *)
C24_MovedByTargetEditedBySource ==
    (AfterMerge /\ BothWellFormed /\ UnderMode("KeepNewer"))
    => \A u \in SharedEntryUuids :
          (MovedByTarget(u) /\ TimeTarget(u) < TimeSource(u))
          => /\ ReplacedBySource(u, ParentUuid(Before, EntryOf(Before, u)))
             /\ EntryOf(Target, u).loc < EntryOf(Before, u).loc

----------------------------------------------------------------------------
\* the objects of the target that the target held before the merge
KeptGroups == {i \in DOMAIN Target.g : Target.g[i].uuid \in LiveGroupUuids(Before)}
KeptEntries == {i \in DOMAIN Target.e : Target.e[i].uuid \in LiveEntryUuids(Before)}

\* the structural pass moved the target's group under the counterpart of the
\* source group's parent
GroupRelocated(u) ==
    /\ u \in LiveGroupUuids(Source)
    /\ GroupOf(Before, u).loc < GroupOf(Source, u).loc
    /\ Recorded("Relocating", u)

EntryRelocated(u) ==
    /\ u \in LiveEntryUuids(Source)
    /\ EntryOf(Before, u).loc < EntryOf(Source, u).loc
    /\ Recorded("Relocating", u)

(* C25, as stated: the merge changes the location_changed of an object of
   the target only when it relocates the object, and never to an earlier
   value than the object had before the merge. *)
C25_LocationChangedMonotone ==
    (AfterMerge /\ BothWellFormed)
    => /\ \A i \in KeptGroups :
            LET u == Target.g[i].uuid
            IN  Target.g[i].loc # GroupOf(Before, u).loc
                => GroupRelocated(u) /\ GroupOf(Before, u).loc < Target.g[i].loc
       /\ \A i \in KeptEntries :
            LET u == Target.e[i].uuid
            IN  Target.e[i].loc # EntryOf(Before, u).loc
                => EntryRelocated(u) /\ EntryOf(Before, u).loc < Target.e[i].loc

\* the conflict of the entry was resolved by putting a clone of the source's
\* copy in the place of the target's
TookSourceCopy(u) ==
    /\ u \in LiveEntryUuids(Source)
    /\ TimeTarget(u) < TimeSource(u)
    /\ Recorded("Overwriting", u) \/ Recorded("Synchronizing from newer source", u)

(* C25, as the code has it: after the merge, the location_changed of a group
   the target held before is the one it had, or, when the merge relocated
   the group, the later one of the source's group; the location_changed of
   an entry the target held before is the one it had, or the one of the
   source's copy, which it takes when the merge creates the source's entry
   or puts it in the place of the target's, and which can be the earlier
   one. *)
C25_LocationChangedFromSource ==
    (AfterMerge /\ BothWellFormed)
    => /\ \A i \in KeptGroups :
            LET u == Target.g[i].uuid
            IN  Target.g[i].loc # GroupOf(Before, u).loc
                => /\ GroupRelocated(u)
                   /\ Target.g[i].loc = GroupOf(Source, u).loc
       /\ \A i \in KeptEntries :
            LET u == Target.e[i].uuid
            IN  Target.e[i].loc # EntryOf(Before, u).loc
                => /\ TookSourceCopy(u) \/ Recorded("Creating missing", u)
                   /\ Target.e[i].loc = EntryOf(Source, u).loc

\* a merge that detached nothing put the source's copy of an entry, with its
\* earlier location_changed, in the place of the target's
C25_Witness ==
    /\ AfterMerge
    /\ BothWellFormed
    /\ NothingDetached(Target)
    /\ \E i \in KeptEntries :
          /\ TookSourceCopy(Target.e[i].uuid)
          /\ i \in LiveEntries(Target)
          /\ Target.e[i].loc = EntryOf(Source, Target.e[i].uuid).loc
          /\ Target.e[i].loc < EntryOf(Before, Target.e[i].uuid).loc

----------------------------------------------------------------------------
\* the groups both sides hold
SharedGroupUuids == LiveGroupUuids(Before) \cap LiveGroupUuids(Source)

GroupsWithUuid(db, u) == {i \in (DOMAIN db.g) \ {RootId} : db.g[i].uuid = u}

\* the source moved the group later than the target did, and the target does
\* not have it under the counterpart of the source group's parent
GroupMovedBySource(u) ==
    /\ GroupOf(Before, u).loc < GroupOf(Source, u).loc
    /\ ParentUuid(Before, GroupOf(Before, u)) # ParentUuid(Source, GroupOf(Source, u))

\* parent and location_changed of the target's group are the source's
GroupFollowsSource(i) ==
    LET u == Target.g[i].uuid
    IN  /\ ParentUuid(Target, Target.g[i]) = ParentUuid(Source, GroupOf(Source, u))
        /\ Target.g[i].loc = GroupOf(Source, u).loc

\* parent and location_changed of the target's group are as before the merge
GroupStays(i) ==
    LET u == Target.g[i].uuid
    IN  /\ ParentUuid(Target, Target.g[i]) = ParentUuid(Before, GroupOf(Before, u))
        /\ Target.g[i].loc = GroupOf(Before, u).loc

\* the merge before this one was of the same source into the same target
MergedAgain ==
    /\ AfterMerge
    /\ Len(last.trail) >= 2
    /\ last.trail[Len(last.trail)] = last.trail[Len(last.trail) - 1]

(* C26: a group both databases hold, which the source moved later than the
   target did and which the target does not have under the counterpart of the
   source group's parent, has after the merge that counterpart as its parent
   and the source's location_changed; every other group both hold, as every
   group in a second merge of the same source, keeps its parent and its
   location_changed. *)
C26_GroupRelocated ==
    (AfterMerge /\ BothWellFormed)
    => \A u \in SharedGroupUuids :
          /\ Cardinality(GroupsWithUuid(Target, u)) = 1
          /\ \A i \in GroupsWithUuid(Target, u) :
                IF GroupMovedBySource(u) THEN GroupFollowsSource(i) ELSE GroupStays(i)

\* the second merge of a source that had moved a group: the first one
\* relocated the group, this one found it in place and left it
C26_Witness ==
    /\ MergedAgain
    /\ BothWellFormed
    /\ NothingDetached(Target)
    /\ Source = dbs[last.src]
    /\ \E u \in SharedGroupUuids :
          /\ ~GroupMovedBySource(u)
          /\ GroupOf(Before, u).loc = GroupOf(Source, u).loc
          /\ GroupOf(Source, u).loc > TicksPerSecond
          /\ last.layout = "clone"
          /\ \A i \in GroupsWithUuid(Target, u) : GroupStays(i) /\ GroupFollowsSource(i)

----------------------------------------------------------------------------
\* the groups of the source that the target does not hold
MissingGroupUuids == LiveGroupUuids(Source) \ LiveGroupUuids(Before)

\* the UUIDs of the entries and of the child groups a group holds
ContentUuids(db, gid) ==
    {db.e[i].uuid : i \in {j \in DOMAIN db.e : db.e[j].parent = gid}}
    \cup {db.g[i].uuid : i \in {j \in DOMAIN db.g : db.g[j].parent = gid}}

\* the structural pass made the group: one group with the UUID, under the
\* counterpart of the source group's parent, with the source's name and
\* location_changed, holding nothing but counterparts of what the source's
\* group holds
CreatedAsShell(u) ==
    /\ Recorded("Creating missing", u)
    /\ Cardinality(GroupsWithUuid(Structural, u)) = 1
    /\ \A i \in GroupsWithUuid(Structural, u) :
          /\ ParentUuid(Structural, Structural.g[i]) = ParentUuid(Source, GroupOf(Source, u))
          /\ Structural.g[i].name = GroupOf(Source, u).name
          /\ Structural.g[i].loc = GroupOf(Source, u).loc
          /\ ContentUuids(Structural, i)
                \subseteq UNION {ContentUuids(Source, j) : j \in GroupsWithUuid(Source, u)}

\* the source moved the entry, later than the target did, into a group the
\* target does not hold
MovedIntoMissingGroup(u) ==
    /\ EntryOf(Before, u).loc < EntryOf(Source, u).loc
    /\ ParentUuid(Source, EntryOf(Source, u)) \in MissingGroupUuids

(* C27: a group of the source that the target does not hold is created by
   the structural pass under the counterpart of its parent in the source,
   with its UUID, its name and its location_changed, and holds only what the
   recursion puts into it; an entry of the target that the source moved into
   such a group is after the merge the one entry with its UUID and sits in the
   new group, and a merge that creates no entry, makes no backup and deletes
   nothing leaves the number of entries as it was. *)
C27_MissingGroupCreated ==
    (AfterMerge /\ BothWellFormed)
    => /\ \A u \in MissingGroupUuids : CreatedAsShell(u)
       /\ \A u \in SharedEntryUuids :
             MovedIntoMissingGroup(u)
             => /\ FollowsSource(u)
                /\ NoEntryAddedOrDeleted
                   => Cardinality(LiveEntries(Target)) = Cardinality(LiveEntries(Before))

----------------------------------------------------------------------------
\* name, notes, icon and expiry time of a group
GroupData(rec) == [name |-> rec.name, notes |-> rec.notes, icon |-> rec.icon,
                   expiry |-> rec.expiry]

(* C28: under every merge mode, forced or not, a group both databases hold
   has after the merge the name, the notes, the icon (built-in number or
   custom-icon UUID) and the expiry time of the source's group when the
   source's group was modified later than the target's, and the ones it had
   before the merge otherwise. *)
C28_GroupNewerWins ==
    (AfterMerge /\ BothWellFormed)
    => \A u \in SharedGroupUuids :
          \A i \in GroupsWithUuid(Target, u) :
             GroupData(Target.g[i]) =
                IF GroupOf(Before, u).mod < GroupOf(Source, u).mod
                THEN GroupData(GroupOf(Source, u))
                ELSE GroupData(GroupOf(Before, u))

----------------------------------------------------------------------------
(* C29: after a merge the target's table of custom icons holds every UUID
   of the source's table; every icon the target had is still in it, with the
   image it had. *)
C29_CustomIconsImported ==
    AfterMerge
    => /\ DOMAIN Source.icons \subseteq DOMAIN Target.icons
       /\ \A id \in DOMAIN Before.icons :
             /\ id \in DOMAIN Target.icons
             /\ Target.icons[id] = Before.icons[id]

\* a merge added an icon of the source to the target's table, left an icon
\* the source has with another image as it was, and kept an icon the source
\* does not have
C29_Witness ==
    /\ AfterMerge
    /\ \E id \in DOMAIN Source.icons \ DOMAIN Before.icons :
          /\ Recorded("Adding missing icon", id)
          /\ Target.icons[id] = Source.icons[id]
    /\ \E id \in DOMAIN Source.icons \cap DOMAIN Before.icons :
          /\ Source.icons[id] # Before.icons[id]
          /\ Target.icons[id] = Before.icons[id]
    /\ DOMAIN Before.icons \ DOMAIN Source.icons # {}

----------------------------------------------------------------------------
\* the second a time lies in
SecondOf(t) == t - (t % TicksPerSecond)

\* the two copies of the entry were modified at different times of the same
\* second
SameSecond(u) ==
    /\ EntryOf(Before, u).mod # EntryOf(Source, u).mod
    /\ SecondOf(EntryOf(Before, u).mod) = SecondOf(EntryOf(Source, u).mod)

\* the items of a history modified in the second t
ItemsOfSecond(h, t) == {k \in 1..Len(h) : SecondOf(h[k].mod) = t}

SecondsOf(h) == {SecondOf(h[k].mod) : k \in 1..Len(h)}

\* the seconds of which both histories hold an item
SharedSeconds(u) == SecondsOf(EntryOf(Before, u).hist) \cap SecondsOf(EntryOf(Source, u).hist)

\* a history with one item a second at most
OneItemASecond(h) == \A t \in SecondsOf(h) : Cardinality(ItemsOfSecond(h, t)) = 1

\* attributes and TimeInfo of the target's entry are the ones it had, and
\* neither a copy of the source's entry took its place nor a backup was made
NotInConflict(u) ==
    /\ Cardinality(EntriesWithUuid(Target, u)) = 1
    /\ \A i \in EntriesWithUuid(Target, u) :
          /\ Target.e[i].data = EntryOf(Before, u).data
          /\ Target.e[i].mod = EntryOf(Before, u).mod
          /\ Target.e[i].loc = EntryOf(Before, u).loc
    /\ ~Recorded("Overwriting", u)
    /\ ~Recorded("Synchronizing from newer source", u)
    /\ ~Recorded("Adding backup for older source", u)
    /\ ~Recorded("Adding backup for older target", u)
    /\ FreshEntries = {}

(* C30: an entry whose two copies differ in last_modification only below the
   second is not in conflict under any mode: the target's entry keeps its
   attributes and its TimeInfo, no copy of the source's entry replaces it and
   no backup is made; and a second of which both histories hold an item,
   each history having one item a second, is held once at most by the history
   of the entry after the merge. *)
C30_SubSecondDifferencesIgnored ==
    (AfterMerge /\ BothWellFormed)
    => \A u \in SharedEntryUuids :
          /\ SameSecond(u) => NotInConflict(u)
          /\ (OneItemASecond(EntryOf(Before, u).hist) /\ OneItemASecond(EntryOf(Source, u).hist))
             => \A t \in SharedSeconds(u) : \A i \in EntriesWithUuid(Target, u) :
                   Cardinality(ItemsOfSecond(Target.e[i].hist, t)) <= 1

\* a Synchronize merge met an entry modified by both sides in the same
\* second, whose histories hold items of one second that differ below the
\* second, and wrote the merged history
C30_Witness ==
    /\ AfterMerge
    /\ BothWellFormed
    /\ \E u \in SharedEntryUuids :
          /\ SameSecond(u)
          /\ NotInConflict(u)
          /\ OneItemASecond(EntryOf(Before, u).hist)
          /\ OneItemASecond(EntryOf(Source, u).hist)
          /\ Recorded("Synchronizing from older source", u)
          /\ \E t \in SharedSeconds(u) :
                /\ \E k \in ItemsOfSecond(EntryOf(Before, u).hist, t) :
                   \E j \in ItemsOfSecond(EntryOf(Source, u).hist, t) :
                      EntryOf(Before, u).hist[k].mod # EntryOf(Source, u).hist[j].mod
                /\ Cardinality(ItemsOfSecond(EntryOf(Target, u).hist, t)) = 1

----------------------------------------------------------------------------
(* C31: a merger constructed with a null source or target populates no      *)
(* context, and its merge() is a no-op: it returns false and leaves every   *)
(* database as it was.                                                      *)

NullMerged == last.kind = "null"

C31_NullMergeIsNoOp ==
    NullMerged =>
        /\ status = "run"
        /\ last.ret = FALSE
        /\ dbs = last.dbs

----------------------------------------------------------------------------
\* the passes that record each kind of change
PassOf(what) ==
    CASE what \in {"Deleting child", "Deleting orphan", "Changed deleted objects"} -> 2
      [] what = "Adding missing icon" -> 3
      [] OTHER -> 1

\* the changes of the structural pass come first, then those of the deletion
\* pass, then those of the metadata pass
PassesInOrder ==
    \A j, k \in 1..Len(last.changes) :
        j < k => PassOf(last.changes[j].what) <= PassOf(last.changes[k].what)

\* objects that are live in the source, absent from the target and
\* tombstoned there
CreatedThenJudged ==
    {u \in LiveUuids(Source) : u \notin LiveUuids(Before) /\ u \in TombstoneUuids(Before)}

SourceObject(u) ==
    IF u \in LiveEntryUuids(Source) THEN EntryOf(Source, u) ELSE GroupOf(Source, u)

ModifiedAfterDeletion(u) == SourceObject(u).mod > MergedDeletionTime(u)

(* C32, as claimed: the structural pass runs first, then the deletion pass, *)
(* then the metadata pass; an object that is live in the source, absent     *)
(* from the target and tombstoned there is created and then judged: it is   *)
(* live after the merge exactly if its last modification is later than the  *)
(* deletion time                                                            *)
C32_CreatedThenJudgedByTime ==
    (AfterMerge /\ BothWellFormed) =>
        /\ PassesInOrder
        /\ \A u \in CreatedThenJudged :
              /\ Recorded("Creating missing", u)
              /\ u \in LiveUuids(Target) <=> ModifiedAfterDeletion(u)

EntryJudged(u) ==
    \E k \in 1..Len(last.evaluated) : last.evaluated[k] = Evaluated("entry", u, FALSE)

(* C32, amended: the three passes run in order, and an object that is live  *)
(* in the source, absent from the target and tombstoned there is created    *)
(* by the structural pass.  Such an entry is live after the merge exactly   *)
(* if the deletion pass finds it in the tree and its last modification is   *)
(* later than the deletion time.  Such a group is live after the merge      *)
(* exactly if its last modification is later than the deletion time or it   *)
(* has content when it is judged.  What stays live has no tombstone.        *)
C32_CreatedThenJudged ==
    (AfterMerge /\ BothWellFormed) =>
        /\ PassesInOrder
        /\ \A u \in CreatedThenJudged :
              /\ Recorded("Creating missing", u)
              /\ u \in LiveUuids(Target) <=> u \notin TombstoneUuids(Target)
              /\ u \in LiveEntryUuids(Source) =>
                    (u \in LiveUuids(Target) <=> (EntryJudged(u) /\ ModifiedAfterDeletion(u)))
              /\ u \in LiveGroupUuids(Source) =>
                    (u \in LiveUuids(Target) <=> (ModifiedAfterDeletion(u) \/ GroupJudged(u, TRUE)))

\* the target had deleted a group and its entry; the source changed the entry
\* afterwards but not the group: the merge created both, kept the entry for
\* its time and the group for its content
C32_Witness ==
    /\ AfterMerge /\ BothWellFormed
    /\ \E u \in CreatedThenJudged \cap LiveEntryUuids(Source) :
       \E w \in CreatedThenJudged \cap LiveGroupUuids(Source) :
          /\ ModifiedAfterDeletion(u) /\ ~ModifiedAfterDeletion(w)
          /\ Recorded("Creating missing", u) /\ Recorded("Creating missing", w)
          /\ EntryJudged(u) /\ GroupJudged(w, TRUE)
          /\ u \in LiveEntryUuids(Target) /\ w \in LiveGroupUuids(Target)

----------------------------------------------------------------------------
\* the groups that the deletion pass judged, in the order of their judgement
JudgedAt(k) == last.evaluated[k]

\* group w is below group u in the target's tree when the deletion pass begins
IsBelow(w, u) ==
    \E i, j \in LiveGroups(Structural) :
        /\ Structural.g[i].uuid = w
        /\ Structural.g[j].uuid = u
        /\ i # j
        /\ IsAncestor(Structural, j, i, Cardinality(DOMAIN Structural.g))

(* C33: in the deletion pass a tombstoned group is judged only after every  *)
(* tombstoned group below it, at any depth, has been judged, and all        *)
(* tombstoned entries are judged before any group                           *)
C33_DescendantsJudgedFirst ==
    (AfterMerge /\ BothWellFormed) =>
        \A j, k \in 1..Len(last.evaluated) :
            /\ (JudgedAt(j).kind = "entry" /\ JudgedAt(k).kind = "group") => j < k
            /\ (/\ JudgedAt(j).kind = "group" /\ JudgedAt(k).kind = "group"
                /\ IsBelow(JudgedAt(j).uuid, JudgedAt(k).uuid)) => j < k

----------------------------------------------------------------------------
(* C34: merge() terminates for every pair of finite databases: the          *)
(* structural recursion ends and the group queue of the deletion pass       *)
(* empties, so that every call returns                                      *)
C34_MergeTerminates ==
    status # "diverged"

----------------------------------------------------------------------------
\* the entry whose history the fold rewrites, and the entry folded into it:
\* under Synchronize the later copy receives, the source's clone when the
\* source is later at second precision and the target's entry otherwise
FoldReceiver(u) ==
    IF TimeTarget(u) < TimeSource(u) THEN EntryOf(Source, u) ELSE EntryOf(Before, u)
FoldGiver(u) ==
    IF TimeTarget(u) < TimeSource(u) THEN EntryOf(Before, u) ELSE EntryOf(Source, u)

\* the item of a history for a second
ItemOfSecond(h, t) == h[CHOOSE i \in 1..Len(h) : SecondOf(h[i].mod) = t]

\* the merged sequence: one item for each second of either history, the
\* receiver's item where both have one, and the giver's own revision when it
\* is the older copy and its second is not there yet; ascending
FoldedSeconds(u) ==
    SecondsOf(FoldReceiver(u).hist) \cup SecondsOf(FoldGiver(u).hist)
        \cup (IF SecondOf(FoldGiver(u).mod) < SecondOf(FoldReceiver(u).mod)
              THEN {SecondOf(FoldGiver(u).mod)} ELSE {})

MergedSequence(u) ==
    LET seconds == SortedSeq(FoldedSeconds(u))
    IN  [i \in 1..Len(seconds) |->
            IF seconds[i] \in SecondsOf(FoldReceiver(u).hist)
            THEN ItemOfSecond(FoldReceiver(u).hist, seconds[i])
            ELSE IF seconds[i] \in SecondsOf(FoldGiver(u).hist)
            THEN ItemOfSecond(FoldGiver(u).hist, seconds[i])
            ELSE HistoryItem(FoldGiver(u))]

\* tail-aligned over the last HistoryMaxItems positions, every pair is there
\* on both sides and equal, milliseconds ignored
TailAlignedEqual(old, new) ==
    \A i \in 1..HistoryMaxItems :
        LET oi == Len(old) - i + 1
            ni == Len(new) - i + 1
        IN  \/ oi < 1 /\ ni < 1
            \/ oi >= 1 /\ ni >= 1 /\ ItemEquals(old[oi], new[ni])

(* C35: the history fold compares the merged sequence with the history of   *)
(* the receiving entry tail-aligned over the last history_max_items         *)
(* positions; it leaves the history as it is exactly when every compared    *)
(* pair is equal ignoring milliseconds, and otherwise replaces it by the    *)
(* merged sequence cut down to history_max_items.  Checked where the fold   *)
(* runs: under Synchronize, histories in order before the merge.            *)
C35_FoldComparesTailAligned ==
    (AfterMerge /\ BothWellFormed /\ EffectiveMode = "Synchronize"
     /\ HistoriesOk(Before) /\ HistoriesOk(Source))
    => \A u \in LiveEntryUuids(Before) \cap LiveEntryUuids(Source) :
          /\ u \in LiveEntryUuids(Target)
          /\ EntryOf(Target, u).hist =
                IF TailAlignedEqual(FoldReceiver(u).hist, MergedSequence(u))
                THEN FoldReceiver(u).hist
                ELSE truncateHistory(MergedSequence(u))
          /\ TimeTarget(u) >= TimeSource(u) =>
                (Recorded("Synchronizing from older source", u)
                    <=> ~TailAlignedEqual(FoldReceiver(u).hist, MergedSequence(u)))

----------------------------------------------------------------------------
\* the TimeInfo of an entry
TimeInfoOf(en) == [mod |-> en.mod, loc |-> en.loc]

\* the fold replaced the history of the entry it folded into
HistoryReplaced(u) == EntryOf(Target, u).hist # FoldReceiver(u).hist

(* C36: folding history into a live entry leaves the entry's own TimeInfo   *)
(* as it was: after a Synchronize merge the entry has the last_modification *)
(* and location_changed that the entry receiving the fold had before,       *)
(* whether or not its history was replaced                                  *)
C36_FoldKeepsTimeInfo ==
    (AfterMerge /\ BothWellFormed /\ EffectiveMode = "Synchronize")
    => \A u \in LiveEntryUuids(Before) \cap LiveEntryUuids(Source) :
          /\ u \in LiveEntryUuids(Target)
          /\ TimeInfoOf(EntryOf(Target, u)) = TimeInfoOf(FoldReceiver(u))

\* a Synchronize merge folded the history of an older source into the
\* target's entry and replaced the history
C36_Witness ==
    /\ AfterMerge /\ BothWellFormed /\ EffectiveMode = "Synchronize"
    /\ \E u \in LiveEntryUuids(Before) \cap LiveEntryUuids(Source) :
          /\ TimeTarget(u) > TimeSource(u)
          /\ Recorded("Synchronizing from older source", u)
          /\ HistoryReplaced(u)
          /\ EntryOf(Target, u).mod = EntryOf(Before, u).mod

----------------------------------------------------------------------------
\* the groups that the target holds before and after the merge, the root
\* group among them
StayingGroupUuids == (LiveGroupUuids(Before) \cap LiveGroupUuids(Target)) \cup {RootUuid}

GroupBefore(u) == IF u = RootUuid THEN Before.g[RootId] ELSE GroupOf(Before, u)
GroupAfter(u) == IF u = RootUuid THEN Target.g[RootId] ELSE GroupOf(Target, u)

GroupTimeInfo(rec) == [mod |-> rec.mod, loc |-> rec.loc]

\* the merge took no step on the group itself: it neither overwrote its data
\* nor relocated it
GroupUntouched(u) == ~Recorded("Overwriting", u) /\ ~Recorded("Relocating", u)

(* C37: adding, relocating, replacing or erasing an entry during a merge    *)
(* leaves the TimeInfo of the groups it leaves and enters as it was: a      *)
(* group of the target that the merge did not itself overwrite or relocate  *)
(* has the same last_modification and location_changed after the merge     *)
C37_GroupTimeInfoKept ==
    AfterMerge =>
        \A u \in StayingGroupUuids :
            GroupUntouched(u) => GroupTimeInfo(GroupAfter(u)) = GroupTimeInfo(GroupBefore(u))

\* a merge relocated an entry from one group of the target into another and
\* both groups have the TimeInfo they had
C37_Witness ==
    /\ AfterMerge /\ BothWellFormed
    /\ \E u \in LiveEntryUuids(Before) \cap LiveEntryUuids(Target) :
          /\ Recorded("Relocating", u)
          /\ EntryOf(Before, u).parent # RootId /\ EntryOf(Target, u).parent # RootId
          /\ EntryOf(Before, u).parent # EntryOf(Target, u).parent
          /\ \A w \in {ParentUuid(Before, EntryOf(Before, u)), ParentUuid(Target, EntryOf(Target, u))} :
                /\ w \in StayingGroupUuids /\ GroupUntouched(w)
                /\ GroupTimeInfo(GroupAfter(w)) = GroupTimeInfo(GroupBefore(w))

----------------------------------------------------------------------------
\* the two sides hold group u, modified within the same second
GroupsOfSameSecond(u) ==
    /\ u \in LiveGroupUuids(Before) \cap LiveGroupUuids(Source)
    /\ SecondOf(GroupOf(Before, u).mod) = SecondOf(GroupOf(Source, u).mod)

\* the two sides hold object u, its location changed within the same second
LocationsOfSameSecond(u) ==
    \/ /\ u \in LiveGroupUuids(Before) \cap LiveGroupUuids(Source)
       /\ SecondOf(GroupOf(Before, u).loc) = SecondOf(GroupOf(Source, u).loc)
    \/ /\ u \in LiveEntryUuids(Before) \cap LiveEntryUuids(Source)
       /\ SecondOf(EntryOf(Before, u).loc) = SecondOf(EntryOf(Source, u).loc)

\* the object that the deletion pass judges for u: the target's own, or the
\* one the structural pass created from the source
JudgedObject(u) ==
    IF u \in LiveEntryUuids(Before) THEN EntryOf(Before, u)
    ELSE IF u \in LiveEntryUuids(Source) THEN EntryOf(Source, u)
    ELSE JudgedGroup(u)

\* u is live on one side and tombstoned on a side, and its last modification
\* is not later than the deletion at second precision
NotModifiedAfterDeletion(u) ==
    /\ u \in LiveUuids(Before) \cup LiveUuids(Source)
    /\ u \in TombstoneUuids(Before) \cup TombstoneUuids(Source)
    /\ SecondOf(JudgedObject(u).mod) <= SecondOf(MergedDeletionTime(u))

(* C38: every timestamp comparison of the merge is made at second           *)
(* precision: a group whose two copies were modified within the same second *)
(* is not overwritten, a location_changed difference below the second       *)
(* causes no relocation, and an object whose last modification exceeds the  *)
(* deletion time only below the second is not kept as modified after the    *)
(* deletion: an entry is deleted, a group is deleted unless it has content  *)
C38_SecondPrecisionEverywhere ==
    (AfterMerge /\ BothWellFormed) =>
        \A u \in AllUuids(Before) \cup AllUuids(Source) :
            /\ GroupsOfSameSecond(u) => ~Recorded("Overwriting", u)
            /\ LocationsOfSameSecond(u) => ~Recorded("Relocating", u)
            /\ NotModifiedAfterDeletion(u) =>
                  \/ u \notin LiveUuids(Target)
                  \/ GroupJudged(u, TRUE)

----------------------------------------------------------------------------
(* C39: no silent mutation: when merge() returns false the target is        *)
(* exactly as it was before the call, with the same objects, parents,       *)
(* contents, histories, TimeInfo values, list of tombstones and custom      *)
(* icons, and it is not marked as modified.  The objects are compared under *)
(* the identities that the end of the merge gives them.                     *)
C39_NoSilentMutation ==
    (AfterMerge /\ ~last.ret) =>
        /\ Target.g = Normalize(Before).g
        /\ Target.e = Normalize(Before).e
        /\ Target.del = Before.del
        /\ Target.icons = Before.icons
        /\ ~last.marked

\* a merge of a source that differs from the target returned false: the
\* target held the later revision of an entry and kept all it had
C39_Witness ==
    /\ AfterMerge /\ ~last.ret
    /\ \E u \in LiveEntryUuids(Before) \cap LiveEntryUuids(Source) :
          /\ TimeTarget(u) > TimeSource(u)
          /\ EntryOf(Target, u) = EntryOf(Before, u)
          /\ EntryOf(Target, u) # EntryOf(Source, u)
    /\ Target.del = Before.del

----------------------------------------------------------------------------
\* the merge was made by a merger on a pair of groups
GroupPairMerged == AfterMerge /\ "sourceGroup" \in DOMAIN last

\* the UUIDs of the objects below the source group of the context
SourceSubtreeUuids ==
    {Source.e[i].uuid : i \in entriesRecursive(Source, last.sourceGroup)}
        \cup {Source.g[i].uuid : i \in groupsRecursive(Source, last.sourceGroup)}

\* the UUIDs of the objects below the target group of the context, before
\* and after the merge
TargetSubtreeBefore ==
    {Before.e[i].uuid : i \in entriesRecursive(Before, last.targetGroup)}
        \cup {Before.g[i].uuid : i \in groupsRecursive(Before, last.targetGroup)}

TargetGroupAfter ==
    IF last.targetGroup = RootId THEN RootId
    ELSE CHOOSE i \in LiveGroups(Target) : Target.g[i].uuid = Before.g[last.targetGroup].uuid

TargetSubtreeAfter ==
    {Target.e[i].uuid : i \in entriesRecursive(Target, TargetGroupAfter)}
        \cup {Target.g[i].uuid : i \in groupsRecursive(Target, TargetGroupAfter)}

\* what the structural pass records
StructuralChanges ==
    {"Creating missing", "Relocating", "Overwriting",
     "Synchronizing from newer source", "Synchronizing from older source",
     "Adding backup for older source", "Adding backup for older target"}

(* C40: a merger on a pair of groups confines the structural pass to the    *)
(* subtree of the source group: it records structural changes only for      *)
(* objects of that subtree and creates no object from outside it.  Its      *)
(* deletion pass applies the tombstones of the whole source database to the *)
(* live objects of the whole target database: an entry with a tombstone of  *)
(* the source that is not earlier than its last modification is gone from   *)
(* the target, wherever it was.                                             *)
C40_GroupPairScope ==
    (GroupPairMerged /\ BothWellFormed) =>
        /\ \A k \in 1..Len(last.changes) :
              last.changes[k].what \in StructuralChanges
                  => last.changes[k].uuid \in SourceSubtreeUuids
        /\ \A u \in LiveUuids(Source) \ SourceSubtreeUuids :
              u \notin LiveUuids(Before) => u \notin LiveUuids(Target)
        /\ \A u \in LiveEntryUuids(Before) :
              DeletionApplies(Source, Before, u)
                  => u \notin LiveUuids(Target) /\ u \in TombstoneUuids(Target)

\* a merger on a pair of groups below the roots relocated into the target
\* group an entry that lived elsewhere in the target, and deleted a group
\* outside the target group for a tombstone of the source
C40_Witness ==
    /\ GroupPairMerged /\ BothWellFormed
    /\ last.sourceGroup # RootId /\ last.targetGroup # RootId
    /\ \E u \in SourceSubtreeUuids \cap LiveEntryUuids(Before) :
          /\ u \notin TargetSubtreeBefore
          /\ Recorded("Relocating", u)
          /\ u \in TargetSubtreeAfter
    /\ \E w \in TombstoneUuids(Source) \cap LiveGroupUuids(Before) :
          /\ w \notin TargetSubtreeBefore
          /\ w # Before.g[last.targetGroup].uuid
          /\ Recorded("Deleting child", w)
          /\ w \notin LiveUuids(Target)

====
